---------------------------- MODULE Spec2Model ----------------------------
(***************************************************************************)
(* A model of the yugen regular-expression front end: the recursive        *)
(* descent Parser (src/src/parser.rs), the Printer (src/src/printer.rs),   *)
(* the Obfuscator (src/src/obfuscator.rs) and the tree model they share    *)
(* (src/src/ast.rs).                                                       *)
(*                                                                         *)
(* Text is a sequence of one-character strings.  The parser's cursor       *)
(* (position) and its group counter (group_count) are threaded through     *)
(* every parsing operator: each takes (inp, pos, gc) and returns a result  *)
(* record  [st, pos, gc, val]  (Ok),  [st, pos, gc, err]  (Err)  or        *)
(* [st, pos, gc]  (Panic: an index-out-of-bounds fault of self.current(),  *)
(* or an integer overflow in a build that traps it).                       *)
(***************************************************************************)
EXTENDS Integers, Sequences, FiniteSets

VARIABLES
    input,                 \* the pattern text handed to Parser::new
    pc,                    \* how far the pipeline has run
    parsed,                \* what Parser::parse returned for input
    obfuscated,            \* what Obfuscator::obfuscate returned, if it ran
    again,                 \* what a second run of obfuscate returned, if any
    use_unicode_escapes,   \* the Printer's escape mode
    printed,               \* what Printer::print returned
    reparsed,              \* what Parser::parse returned for printed
    overflow_checks        \* whether the build traps integer overflow

vars ==
    <<input, pc, parsed, obfuscated, again, use_unicode_escapes, printed,
      reparsed, overflow_checks>>

---------------------------------------------------------------------------
(* Characters                                                              *)

Digits == {"0", "1", "2", "3", "4", "5", "6", "7", "8", "9"}

LowerLetters ==
    {"a", "b", "c", "d", "e", "f", "g", "h", "i", "j", "k", "l", "m",
     "n", "o", "p", "q", "r", "s", "t", "u", "v", "w", "x", "y", "z"}

UpperLetters ==
    {"A", "B", "C", "D", "E", "F", "G", "H", "I", "J", "K", "L", "M",
     "N", "O", "P", "Q", "R", "S", "T", "U", "V", "W", "X", "Y", "Z"}

\* char::is_ascii_digit
IsAsciiDigit(c) == c \in Digits

\* char::is_alphanumeric, on the ASCII characters of the model
IsAlphanumeric(c) == c \in Digits \cup LowerLetters \cup UpperLetters

\* The decimal digits in order: DecDigits[d + 1] is the digit of value d
DecDigits == <<"0", "1", "2", "3", "4", "5", "6", "7", "8", "9">>

\* The upper-case hexadecimal digits in order, as {:X} writes them
HexDigitsUpper ==
    <<"0", "1", "2", "3", "4", "5", "6", "7", "8", "9",
      "A", "B", "C", "D", "E", "F">>

HexDigitsLower ==
    <<"0", "1", "2", "3", "4", "5", "6", "7", "8", "9",
      "a", "b", "c", "d", "e", "f">>

\* char::to_digit(16): [some |-> TRUE, v |-> value] or [some |-> FALSE]
ToDigit16(c) ==
    IF \E i \in 1..16 : HexDigitsUpper[i] = c
    THEN [some |-> TRUE, v |-> (CHOOSE i \in 1..16 : HexDigitsUpper[i] = c) - 1]
    ELSE IF \E i \in 1..16 : HexDigitsLower[i] = c
    THEN [some |-> TRUE, v |-> (CHOOSE i \in 1..16 : HexDigitsLower[i] = c) - 1]
    ELSE [some |-> FALSE]

\* char::to_digit(10) of an ASCII digit
ToDigit10(c) == (CHOOSE i \in 1..10 : DecDigits[i] = c) - 1

\* The printable ASCII characters, code points 32 .. 126, in order (the
\* grave accent, code point 96, is written "GRAVE")
Ascii ==
    <<" ", "!", "\"", "#", "$", "%", "&", "'", "(", ")", "*", "+", ",", "-",
      ".", "/", "0", "1", "2", "3", "4", "5", "6", "7", "8", "9", ":", ";",
      "<", "=", ">", "?", "@", "A", "B", "C", "D", "E", "F", "G", "H", "I",
      "J", "K", "L", "M", "N", "O", "P", "Q", "R", "S", "T", "U", "V", "W",
      "X", "Y", "Z", "[", "\\", "]", "^", "_", "GRAVE", "a", "b", "c", "d", "e",
      "f", "g", "h", "i", "j", "k", "l", "m", "n", "o", "p", "q", "r", "s",
      "t", "u", "v", "w", "x", "y", "z", "{", "|", "}", "~">>

\* c as u32
CodePoint(c) == (CHOOSE i \in 1..Len(Ascii) : Ascii[i] = c) + 31

---------------------------------------------------------------------------
(* The tree model (ast.rs)                                                 *)

new_literal(c) == [t |-> "Literal", c |-> c]

new_char_class(chars, negated) ==
    [t |-> "CharacterClass", negated |-> negated, chars |-> chars]

Dot == [t |-> "Dot"]

new_anchor(anchor_type) == [t |-> "Anchor", anchor |-> anchor_type]

WordBoundary == [t |-> "WordBoundary"]

with_quantifier(node, quantifier) ==
    [t |-> "Quantified", node |-> node, quantifier |-> quantifier]

new_group(kind, nodes) == [t |-> "Group", kind |-> kind, nodes |-> nodes]

new_backreference(kind) == [t |-> "Backreference", kind |-> kind]

new_character_type(kind) == [t |-> "CharacterType", kind |-> kind]

new_unicode_category(category, negated) ==
    [t |-> "UnicodeCategory", negated |-> negated, category |-> category]

new_alternation(alternatives) ==
    [t |-> "Alternation", alternatives |-> alternatives]

new_lookaround(kind, nodes) ==
    [t |-> "Lookaround", kind |-> kind, nodes |-> nodes]

new_flag_set(flags, nodes) == [t |-> "FlagSet", flags |-> flags, nodes |-> nodes]

\* GroupKind
CapturingNone == [k |-> "Capturing", named |-> FALSE]
CapturingSome(name) == [k |-> "Capturing", named |-> TRUE, name |-> name]
NonCapturing == [k |-> "NonCapturing"]

\* BackreferenceKind
NumberBased(n) == [k |-> "NumberBased", n |-> n]
NameBased(name) == [k |-> "NameBased", name |-> name]

\* Quantifier
ZeroOrMore(lazy) == [q |-> "ZeroOrMore", lazy |-> lazy]
OneOrMore(lazy) == [q |-> "OneOrMore", lazy |-> lazy]
ZeroOrOne(lazy) == [q |-> "ZeroOrOne", lazy |-> lazy]
Exactly(n) == [q |-> "Exactly", n |-> n]
AtLeast(n) == [q |-> "AtLeast", n |-> n]
\* A wrong Range, which puts the smaller bound first
RangeOrdered(min, max) ==
    IF min <= max THEN [q |-> "Range", min |-> min, max |-> max]
    ELSE [q |-> "Range", min |-> max, max |-> min]

Range(min, max) == [q |-> "Range", min |-> min, max |-> max]

\* CharacterTypeKind and EscapedChar
CharKind(k) == [k |-> k]
EscapedChar(e) == [k |-> "EscapedChar", e |-> e]
EscapedHex(n) == [k |-> "EscapedChar", e |-> "Hex", n |-> n]
EscapedUnicode(n) == [k |-> "EscapedChar", e |-> "Unicode", n |-> n]

\* RegexFlags
RegexFlags(i, m, s) == [case_insensitive |-> i, multiline |-> m, dot_all |-> s]

\* RegexFlags::new
RegexFlagsNew == RegexFlags(FALSE, FALSE, FALSE)

\* RegexFlags::from_char
FlagsFromChar(c) ==
    CASE c = "i" -> [some |-> TRUE, flags |-> RegexFlags(TRUE, FALSE, FALSE)]
      [] c = "m" -> [some |-> TRUE, flags |-> RegexFlags(FALSE, TRUE, FALSE)]
      [] c = "s" -> [some |-> TRUE, flags |-> RegexFlags(FALSE, FALSE, TRUE)]
      [] OTHER -> [some |-> FALSE]

\* RegexFlags::merge
FlagsMerge(a, b) ==
    RegexFlags(a.case_insensitive \/ b.case_insensitive,
               a.multiline \/ b.multiline,
               a.dot_all \/ b.dot_all)

---------------------------------------------------------------------------
(* The parser (parser.rs)                                                  *)

\* enum ParseError
ParseErrors ==
    {"UnexpectedEndOfInput", "UnexpectedCharacter", "UnclosedCharacterClass",
     "InvalidQuantifier", "InvalidNumber", "UnclosedGroup",
     "InvalidGroupSyntax", "InvalidBackreference", "InvalidGroupName",
     "InvalidUnicodeCategory", "InvalidHexNumber", "InvalidUnicodeValue",
     "EmptyAlternation", "InvalidLookaround"}

Ok(pos, gc, val) == [st |-> "Ok", pos |-> pos, gc |-> gc, val |-> val]
Err(pos, gc, e) == [st |-> "Err", pos |-> pos, gc |-> gc, err |-> e]
\* self.input[self.position] with position out of bounds
Panic(pos, gc) == [st |-> "Panic", pos |-> pos, gc |-> gc]

\* Parser::is_eof
IsEof(inp, pos) == pos >= Len(inp)

\* Parser::current (the caller has excluded, or modelled, the fault)
Cur(inp, pos) == inp[pos + 1]

\* Parser::check_char
CheckChar(inp, pos, c) == ~IsEof(inp, pos) /\ Cur(inp, pos) = c

\* A wrong check_lazy, which never sees the '?'
CheckLazyNever(inp, pos) == FALSE

\* Parser::check_lazy: whether the quantifier is lazy; the cursor then
\* moves one further
CheckLazy(inp, pos) == ~IsEof(inp, pos) /\ Cur(inp, pos) = "?"

\* The end of the run of ASCII digits that starts at pos
RECURSIVE DigitRunEnd(_, _)
DigitRunEnd(inp, pos) ==
    IF ~IsEof(inp, pos) /\ IsAsciiDigit(Cur(inp, pos))
    THEN DigitRunEnd(inp, pos + 1)
    ELSE pos

\* The characters of inp at cursor positions from .. to - 1
Slice(inp, from, to) == SubSeq(inp, from + 1, to)

\* The value of a string of decimal digits
RECURSIVE DecValue(_)
DecValue(s) ==
    IF s = <<>> THEN 0
    ELSE DecValue(SubSeq(s, 1, Len(s) - 1)) * 10 + ToDigit10(s[Len(s)])

\* usize::MAX, at a width of 16 bits, the narrowest a target gives usize
\* (wider values are beyond the integers of the model checker)
UsizeMax == 65535

\* The number of decimal digits of n
RECURSIVE DigitCount(_)
DigitCount(n) == IF n < 10 THEN 1 ELSE 1 + DigitCount(n \div 10)

\* A string of digits without its leading zeros
RECURSIVE StripZeros(_)
StripZeros(s) ==
    IF s # <<>> /\ Head(s) = "0" THEN StripZeros(Tail(s)) ELSE s

\* The digits stand for a number that usize holds
FitsUsize(s) ==
    \/ Len(StripZeros(s)) < DigitCount(UsizeMax)
    \/ /\ Len(StripZeros(s)) = DigitCount(UsizeMax)
       /\ DecValue(StripZeros(s)) <= UsizeMax

\* A wrong str::parse::<usize>, which reads the empty string as 0: C16 must
\* tell it from StrParseUsize
StrParseUsizeLenient(s) ==
    IF ~FitsUsize(s) THEN [ok |-> FALSE]
    ELSE [ok |-> TRUE, v |-> DecValue(StripZeros(s))]

\* str::parse::<usize> of a string of ASCII digits: the empty string and a
\* number that usize does not hold are errors
StrParseUsize(s) ==
    IF s = <<>> \/ ~FitsUsize(s) THEN [ok |-> FALSE]
    ELSE [ok |-> TRUE, v |-> DecValue(StripZeros(s))]

\* The loop of Parser::parse_number.  num * 10 + digit is computed in
\* usize: beyond UsizeMax a build with overflow checks panics and a build
\* without them keeps the value modulo UsizeMax + 1
RECURSIVE NumberLoop(_, _, _, _)
NumberLoop(inp, pos, gc, num) ==
    IF ~IsEof(inp, pos) /\ IsAsciiDigit(Cur(inp, pos))
    THEN IF num * 10 + ToDigit10(Cur(inp, pos)) <= UsizeMax
         THEN NumberLoop(inp, pos + 1, gc, num * 10 + ToDigit10(Cur(inp, pos)))
         ELSE IF overflow_checks THEN Panic(pos, gc)
         ELSE NumberLoop(inp, pos + 1, gc,
                         (num * 10 + ToDigit10(Cur(inp, pos)))
                             % (UsizeMax + 1))
    ELSE Ok(pos, gc, num)

\* Parser::parse_number
ParseNumber(inp, pos, gc) == NumberLoop(inp, pos, gc, 0)

\* Parser::parse_curly_quantifier, entered after the '{'
ParseCurlyQuantifier(inp, pos, gc) ==
    LET e1 == DigitRunEnd(inp, pos)
        n == StrParseUsize(Slice(inp, pos, e1))
    IN  IF ~n.ok THEN Err(e1, gc, "InvalidNumber")
        ELSE IF IsEof(inp, e1) THEN Err(e1, gc, "UnexpectedEndOfInput")
        ELSE IF Cur(inp, e1) = "}" THEN Ok(e1 + 1, gc, Exactly(n.v))
        ELSE IF Cur(inp, e1) = "," THEN
            IF IsEof(inp, e1 + 1)
            THEN Err(e1 + 1, gc, "UnexpectedEndOfInput")
            ELSE IF Cur(inp, e1 + 1) = "}"
            THEN Ok(e1 + 2, gc, AtLeast(n.v))
            ELSE LET e2 == DigitRunEnd(inp, e1 + 1)
                     max == StrParseUsize(Slice(inp, e1 + 1, e2))
                 IN  IF IsEof(inp, e2) \/ Cur(inp, e2) # "}"
                     THEN Err(e2, gc, "InvalidQuantifier")
                     ELSE IF ~max.ok
                     THEN Err(e2 + 1, gc, "InvalidNumber")
                     ELSE Ok(e2 + 1, gc, Range(n.v, max.v))
        ELSE Err(e1, gc, "InvalidQuantifier")

\* Parser::try_parse_quantifier: val is [some |-> TRUE, q |-> quantifier]
\* or [some |-> FALSE]
TryParseQuantifier(inp, pos, gc) ==
    IF IsEof(inp, pos) THEN Ok(pos, gc, [some |-> FALSE])
    ELSE LET c == Cur(inp, pos)
             lazy == CheckLazy(inp, pos + 1)
             after == IF lazy THEN pos + 2 ELSE pos + 1
         IN  CASE c = "*" ->
                    Ok(after, gc, [some |-> TRUE, q |-> ZeroOrMore(lazy)])
               [] c = "+" ->
                    Ok(after, gc, [some |-> TRUE, q |-> OneOrMore(lazy)])
               [] c = "?" ->
                    Ok(after, gc, [some |-> TRUE, q |-> ZeroOrOne(lazy)])
               [] c = "{" ->
                    LET r == ParseCurlyQuantifier(inp, pos + 1, gc)
                    IN  IF r.st = "Ok"
                        THEN Ok(r.pos, r.gc, [some |-> TRUE, q |-> r.val])
                        ELSE r
               [] OTHER -> Ok(pos, gc, [some |-> FALSE])

\* The loop of Parser::parse_character_class: the members collected up to
\* an unescaped ']' or the end of the input
RECURSIVE ClassLoop(_, _, _, _)
ClassLoop(inp, pos, gc, chars) ==
    IF ~IsEof(inp, pos) /\ Cur(inp, pos) # "]"
    THEN IF Cur(inp, pos) = "\\"
         THEN IF IsEof(inp, pos + 1)
              THEN Err(pos + 1, gc, "UnexpectedEndOfInput")
              ELSE ClassLoop(inp, pos + 2, gc, Append(chars, Cur(inp, pos + 1)))
         ELSE ClassLoop(inp, pos + 1, gc, Append(chars, Cur(inp, pos)))
    ELSE Ok(pos, gc, chars)

\* Parser::parse_character_class, entered at the '['
ParseCharacterClass(inp, pos, gc) ==
    IF IsEof(inp, pos + 1) THEN Panic(pos + 1, gc)
    ELSE LET negated == Cur(inp, pos + 1) = "^"
             start == IF negated THEN pos + 2 ELSE pos + 1
             r == ClassLoop(inp, start, gc, <<>>)
         IN  IF r.st # "Ok" THEN r
             ELSE IF IsEof(inp, r.pos)
             THEN Err(r.pos, gc, "UnclosedCharacterClass")
             ELSE Ok(r.pos + 1, gc, new_char_class(r.val, negated))

\* The loop of Parser::parse_group_name
RECURSIVE NameLoop(_, _, _, _)
NameLoop(inp, pos, gc, name) ==
    IF ~IsEof(inp, pos) /\ Cur(inp, pos) # ">"
    THEN IF IsAlphanumeric(Cur(inp, pos)) \/ Cur(inp, pos) = "_"
         THEN NameLoop(inp, pos + 1, gc, Append(name, Cur(inp, pos)))
         ELSE Err(pos, gc, "InvalidGroupName")
    ELSE Ok(pos, gc, name)

\* A wrong parse_group_name, which lets an empty name pass
ParseGroupNameLenient(inp, pos, gc) ==
    LET r == NameLoop(inp, pos, gc, <<>>)
    IN  IF r.st # "Ok" THEN r
        ELSE IF IsEof(inp, r.pos)
        THEN Err(r.pos, gc, "InvalidGroupName")
        ELSE Ok(r.pos + 1, gc, r.val)

\* Parser::parse_group_name
ParseGroupName(inp, pos, gc) ==
    LET r == NameLoop(inp, pos, gc, <<>>)
    IN  IF r.st # "Ok" THEN r
        ELSE IF IsEof(inp, r.pos) \/ r.val = <<>>
        THEN Err(r.pos, gc, "InvalidGroupName")
        ELSE Ok(r.pos + 1, gc, r.val)

\* Parser::parse_unicode_category, entered after the 'p' or 'P'
ParseUnicodeCategory(inp, pos, gc, negated) ==
    IF ~CheckChar(inp, pos, "{") THEN Err(pos, gc, "InvalidUnicodeCategory")
    ELSE IF IsEof(inp, pos + 1) THEN Panic(pos + 1, gc)
    ELSE LET c == Cur(inp, pos + 1)
             known == c \in {"L", "N", "P", "S", "M", "Z", "C"}
             category ==
                 CASE c = "L" -> "Letter"
                   [] c = "N" -> "Number"
                   [] c = "P" -> "Punctuation"
                   [] c = "S" -> "Symbol"
                   [] c = "M" -> "Mark"
                   [] c = "Z" -> "Separator"
                   [] c = "C" -> "Other"
         IN  IF ~known THEN Err(pos + 1, gc, "InvalidUnicodeCategory")
             ELSE IF ~CheckChar(inp, pos + 2, "}")
             THEN Err(pos + 2, gc, "InvalidUnicodeCategory")
             ELSE Ok(pos + 3, gc, new_unicode_category(category, negated))

\* Parser::parse_hex
RECURSIVE ParseHexLoop(_, _, _, _, _)
ParseHexLoop(inp, pos, gc, count, value) ==
    IF count = 0 THEN Ok(pos, gc, value)
    ELSE IF IsEof(inp, pos) THEN Err(pos, gc, "InvalidHexNumber")
    ELSE LET d == ToDigit16(Cur(inp, pos))
         IN  IF ~d.some THEN Err(pos, gc, "InvalidHexNumber")
             ELSE ParseHexLoop(inp, pos + 1, gc, count - 1, value * 16 + d.v)

ParseHex(inp, pos, gc, count) == ParseHexLoop(inp, pos, gc, count, 0)

\* Parser::parse_unicode_value
RECURSIVE UnicodeValueLoop(_, _, _, _, _)
UnicodeValueLoop(inp, pos, gc, count, value) ==
    IF ~IsEof(inp, pos) /\ Cur(inp, pos) # "}" /\ count < 6
    THEN LET d == ToDigit16(Cur(inp, pos))
         IN  IF ~d.some THEN Err(pos, gc, "InvalidUnicodeValue")
             ELSE UnicodeValueLoop(inp, pos + 1, gc, count + 1,
                                   value * 16 + d.v)
    ELSE IF count = 0 THEN Err(pos, gc, "InvalidUnicodeValue")
    ELSE Ok(pos, gc, value)

\* A wrong parse_unicode_value, whose digit count starts at one
ParseUnicodeValueFromOne(inp, pos, gc) == UnicodeValueLoop(inp, pos, gc, 1, 0)

ParseUnicodeValue(inp, pos, gc) == UnicodeValueLoop(inp, pos, gc, 0, 0)

\* Parser::parse_escape, entered after the '\'
ParseEscape(inp, pos, gc) ==
    IF IsEof(inp, pos) THEN Err(pos, gc, "UnexpectedEndOfInput")
    ELSE LET c == Cur(inp, pos)
         IN  CASE c = "b" -> Ok(pos + 1, gc, WordBoundary)
               [] c = "k" ->
                    IF ~CheckChar(inp, pos + 1, "<")
                    THEN Err(pos + 1, gc, "InvalidBackreference")
                    ELSE LET r == ParseGroupName(inp, pos + 2, gc)
                         IN  IF r.st # "Ok" THEN r
                             ELSE Ok(r.pos, gc,
                                     new_backreference(NameBased(r.val)))
               [] c = "w" -> Ok(pos + 1, gc, new_character_type(CharKind("Word")))
               [] c = "W" ->
                    Ok(pos + 1, gc, new_character_type(CharKind("NotWord")))
               [] c = "d" -> Ok(pos + 1, gc, new_character_type(CharKind("Digit")))
               [] c = "D" ->
                    Ok(pos + 1, gc, new_character_type(CharKind("NotDigit")))
               [] c = "s" ->
                    Ok(pos + 1, gc, new_character_type(CharKind("Whitespace")))
               [] c = "S" ->
                    Ok(pos + 1, gc,
                       new_character_type(CharKind("NotWhitespace")))
               [] c \in {"p", "P"} ->
                    ParseUnicodeCategory(inp, pos + 1, gc, c = "P")
               [] c = "n" ->
                    Ok(pos + 1, gc, new_character_type(EscapedChar("NewLine")))
               [] c = "t" ->
                    Ok(pos + 1, gc, new_character_type(EscapedChar("Tab")))
               [] c = "r" ->
                    Ok(pos + 1, gc,
                       new_character_type(EscapedChar("CarriageReturn")))
               [] c = "f" ->
                    Ok(pos + 1, gc, new_character_type(EscapedChar("FormFeed")))
               [] c = "v" ->
                    Ok(pos + 1, gc,
                       new_character_type(EscapedChar("VerticalTab")))
               [] c = "0" ->
                    Ok(pos + 1, gc, new_character_type(EscapedChar("Null")))
               [] c = "x" ->
                    LET r == ParseHex(inp, pos + 1, gc, 2)
                    IN  IF r.st # "Ok" THEN r
                        ELSE Ok(r.pos, gc,
                                new_character_type(EscapedHex(r.val)))
               [] c = "u" ->
                    IF ~CheckChar(inp, pos + 1, "{")
                    THEN Err(pos + 1, gc, "InvalidUnicodeValue")
                    ELSE LET r == ParseUnicodeValue(inp, pos + 2, gc)
                         IN  IF r.st # "Ok" THEN r
                             ELSE IF ~CheckChar(inp, r.pos, "}")
                             THEN Err(r.pos, gc, "InvalidUnicodeValue")
                             ELSE Ok(r.pos + 1, gc,
                                     new_character_type(EscapedUnicode(r.val)))
               [] IsAsciiDigit(c) /\ c # "0" ->
                    LET r == ParseNumber(inp, pos, gc)
                    IN  IF r.st # "Ok" THEN r
                        ELSE IF r.val = 0 \/ r.val > gc
                        THEN Err(r.pos, gc, "InvalidBackreference")
                        ELSE Ok(r.pos, gc,
                                new_backreference(NumberBased(r.val)))
               [] OTHER -> Ok(pos + 1, gc, new_literal(c))


RECURSIVE ParseAlternation(_, _, _)
RECURSIVE ParseNode(_, _, _)

\* A wrong choice of the lookaround kind, which takes every lookaround for
\* a lookahead
LookaroundKindAhead(negative, behind) ==
    IF negative THEN "NegativeLookahead" ELSE "PositiveLookahead"

\* The LookaroundKind chosen by the lookaround arms of Parser::parse_group
LookaroundKind(negative, behind) ==
    CASE ~negative /\ ~behind -> "PositiveLookahead"
      [] negative /\ ~behind -> "NegativeLookahead"
      [] ~negative /\ behind -> "PositiveLookbehind"
      [] negative /\ behind -> "NegativeLookbehind"

\* The capturing-group arm of Parser::parse_group: the group counter after
\* an unnamed '(' is recognised
OpenCapturing(gc) == gc + 1

\* The named-group arm of Parser::parse_group: the group counter after
\* '(?<name>' is recognised (the code leaves it alone)
OpenNamed(gc) == gc

\* The named-group arm of Parser::parse_group up to its body: n is what
\* parse_group_name returned
OpenNamedGroup(n) ==
    IF n.st # "Ok" THEN n
    ELSE Ok(n.pos, OpenNamed(n.gc), [t |-> "Group", kind |-> CapturingSome(n.val)])

\* Parser::parse_group, entered at the '(', up to the body of the group:
\* the arm taken.  val is the node to build, without its children; pos is
\* where the body starts and gc the group counter the body is parsed with
OpenGroup(inp, pos, gc) ==
    IF CheckChar(inp, pos + 1, "?")
    THEN IF IsEof(inp, pos + 2) THEN Panic(pos + 2, gc)
         ELSE CASE Cur(inp, pos + 2) = ":" ->
                     Ok(pos + 3, gc, [t |-> "Group", kind |-> NonCapturing])
                [] Cur(inp, pos + 2) = "<" ->
                     IF CheckChar(inp, pos + 3, "=")
                        \/ CheckChar(inp, pos + 3, "!")
                     THEN Ok(pos + 4, gc,
                             [t |-> "Lookaround",
                              kind |-> LookaroundKind(
                                           Cur(inp, pos + 3) = "!", TRUE)])
                     ELSE OpenNamedGroup(ParseGroupName(inp, pos + 3, gc))
                [] Cur(inp, pos + 2) \in {"=", "!"} ->
                     Ok(pos + 3, gc,
                        [t |-> "Lookaround",
                         kind |-> LookaroundKind(
                                      Cur(inp, pos + 2) = "!", FALSE)])
                [] OTHER -> Err(pos + 2, gc, "InvalidGroupSyntax")
    ELSE Ok(pos + 1, OpenCapturing(gc), [t |-> "Group", kind |-> CapturingNone])

\* The tail every arm of Parser::parse_group shares: after the body (r is
\* what parse_alternation returned) the closing ')' is required, and the
\* node is built from the arm's kind and the body's nodes
CloseGroup(inp, open, r) ==
    IF r.st # "Ok" THEN r
    ELSE IF IsEof(inp, r.pos) \/ Cur(inp, r.pos) # ")"
    THEN Err(r.pos, r.gc, "UnclosedGroup")
    ELSE IF open.t = "Group"
    THEN Ok(r.pos + 1, r.gc, new_group(open.kind, r.val))
    ELSE Ok(r.pos + 1, r.gc, new_lookaround(open.kind, r.val))

\* Parser::parse_group from the body on: h is the arm taken
GroupBody(inp, h) ==
    IF h.st # "Ok" THEN h
    ELSE CloseGroup(inp, h.val, ParseAlternation(inp, h.pos, h.gc))

\* Parser::parse_group, entered at the '('
ParseGroup(inp, pos, gc) == GroupBody(inp, OpenGroup(inp, pos, gc))

\* The dispatch of Parser::parse_node on the current character
ParseAtom(inp, pos, gc) ==
    CASE Cur(inp, pos) = "." -> Ok(pos + 1, gc, Dot)
      [] Cur(inp, pos) = "^" -> Ok(pos + 1, gc, new_anchor("Start"))
      [] Cur(inp, pos) = "$" -> Ok(pos + 1, gc, new_anchor("End"))
      [] Cur(inp, pos) = "\\" -> ParseEscape(inp, pos + 1, gc)
      [] Cur(inp, pos) = "[" -> ParseCharacterClass(inp, pos, gc)
      [] Cur(inp, pos) = "(" -> ParseGroup(inp, pos, gc)
      [] OTHER -> Ok(pos + 1, gc, new_literal(Cur(inp, pos)))

\* Parser::parse_node after try_parse_quantifier: r is the atom, q what
\* try_parse_quantifier returned
ApplyQuantifier(r, q) ==
    IF q.st # "Ok" THEN q
    ELSE IF q.val.some
    THEN Ok(q.pos, q.gc, with_quantifier(r.val, q.val.q))
    ELSE r

\* Parser::parse_node after the atom: r is what the dispatch returned
ParseQuantified(inp, r) ==
    IF r.st # "Ok" THEN r
    ELSE IF ~IsEof(inp, r.pos)
    THEN ApplyQuantifier(r, TryParseQuantifier(inp, r.pos, r.gc))
    ELSE r

\* Parser::parse_node
ParseNode(inp, pos, gc) ==
    IF IsEof(inp, pos) THEN Err(pos, gc, "UnexpectedEndOfInput")
    ELSE ParseQuantified(inp, ParseAtom(inp, pos, gc))

\* A wrong end of parse_alternation, which wraps several branches without
\* looking for an empty one: C8 must tell it from FinishAlternation
FinishAlternationUnchecked(pos, gc, alternatives) ==
    IF Len(alternatives) > 1
    THEN Ok(pos, gc, <<new_alternation(alternatives)>>)
    ELSE Ok(pos, gc, alternatives[1])

\* The end of Parser::parse_alternation: one branch is returned as it is,
\* several are wrapped in an Alternation unless one of them is empty
FinishAlternation(pos, gc, alternatives) ==
    IF Len(alternatives) > 1
    THEN IF \E i \in 1..Len(alternatives) : alternatives[i] = <<>>
         THEN Err(pos, gc, "EmptyAlternation")
         ELSE Ok(pos, gc, <<new_alternation(alternatives)>>)
    ELSE Ok(pos, gc, alternatives[1])

\* Parser::parse_alternation's step at '|': a new, empty branch is opened
PushAlternative(alternatives) == Append(alternatives, <<>>)

\* A wrong step at an atom, which appends the node to the first branch: C9
\* must tell it from PushNode
PushNodeFirst(alternatives, node) ==
    [alternatives EXCEPT ![1] = Append(@, node)]

\* Parser::parse_alternation's step at an atom: the node is appended to the
\* last branch
PushNode(alternatives, node) ==
    [alternatives EXCEPT ![Len(alternatives)] = Append(@, node)]

RECURSIVE AlternationLoop(_, _, _, _)

\* Parser::parse_alternation after parse_node returned r: an error ends
\* the parse, a node is pushed and the loop goes on
AfterNode(inp, alternatives, r) ==
    IF r.st # "Ok" THEN r
    ELSE AlternationLoop(inp, r.pos, r.gc, PushNode(alternatives, r.val))

\* The loop of Parser::parse_alternation
AlternationLoop(inp, pos, gc, alternatives) ==
    IF IsEof(inp, pos) THEN FinishAlternation(pos, gc, alternatives)
    ELSE IF Cur(inp, pos) = "|"
    THEN AlternationLoop(inp, pos + 1, gc, PushAlternative(alternatives))
    ELSE IF Cur(inp, pos) = ")"
    THEN FinishAlternation(pos, gc, alternatives)
    ELSE AfterNode(inp, alternatives, ParseNode(inp, pos, gc))

\* Parser::parse_alternation
ParseAlternation(inp, pos, gc) == AlternationLoop(inp, pos, gc, << <<>> >>)

\* Parser::new followed by Parser::parse
Parse(inp) == ParseAlternation(inp, 0, 0)

---------------------------------------------------------------------------
(* The printer (printer.rs)                                                *)

\* format!("{}", n) of an unsigned integer
RECURSIVE FormatDec(_)
FormatDec(n) ==
    IF n < 10 THEN <<DecDigits[n + 1]>>
    ELSE Append(FormatDec(n \div 10), DecDigits[(n % 10) + 1])

\* format!("{:X}", n)
RECURSIVE FormatHex(_)
FormatHex(n) ==
    IF n < 16 THEN <<HexDigitsUpper[n + 1]>>
    ELSE Append(FormatHex(n \div 16), HexDigitsUpper[(n % 16) + 1])

\* format!("{:02X}", n): at least two digits, padded with '0'
FormatHex02(n) == IF n < 16 THEN <<"0">> \o FormatHex(n) ELSE FormatHex(n)

\* A wrong print_char, which ignores the escape mode: C15 must tell it from
\* PrintChar
PrintCharVerbatim(c, esc) == <<c>>

\* Printer::print_char
PrintChar(c, esc) ==
    IF esc
    THEN <<"\\", "u", "{">> \o FormatHex(CodePoint(c)) \o <<"}">>
    ELSE <<c>>

\* The characters of a class, each through print_char, joined by ""
RECURSIVE PrintChars(_, _)
PrintChars(chars, esc) ==
    IF chars = <<>> THEN <<>>
    ELSE PrintChar(Head(chars), esc)
         \o PrintChars(Tail(chars), esc)

\* A wrong print_quantifier, which writes a range as its minimum alone
PrintQuantifierMin(quantifier) ==
    CASE quantifier.q = "ZeroOrMore" ->
           IF quantifier.lazy THEN <<"*", "?">> ELSE <<"*">>
      [] quantifier.q = "OneOrMore" ->
           IF quantifier.lazy THEN <<"+", "?">> ELSE <<"+">>
      [] quantifier.q = "ZeroOrOne" ->
           IF quantifier.lazy THEN <<"?", "?">> ELSE <<"?">>
      [] quantifier.q = "Exactly" ->
           <<"{">> \o FormatDec(quantifier.n) \o <<"}">>
      [] quantifier.q = "AtLeast" ->
           <<"{">> \o FormatDec(quantifier.n) \o <<",", "}">>
      [] quantifier.q = "Range" ->
           <<"{">> \o FormatDec(quantifier.min) \o <<"}">>

\* Printer::print_quantifier
PrintQuantifier(quantifier) ==
    CASE quantifier.q = "ZeroOrMore" ->
           IF quantifier.lazy THEN <<"*", "?">> ELSE <<"*">>
      [] quantifier.q = "OneOrMore" ->
           IF quantifier.lazy THEN <<"+", "?">> ELSE <<"+">>
      [] quantifier.q = "ZeroOrOne" ->
           IF quantifier.lazy THEN <<"?", "?">> ELSE <<"?">>
      [] quantifier.q = "Exactly" ->
           <<"{">> \o FormatDec(quantifier.n) \o <<"}">>
      [] quantifier.q = "AtLeast" ->
           <<"{">> \o FormatDec(quantifier.n) \o <<",", "}">>
      [] quantifier.q = "Range" ->
           <<"{">> \o FormatDec(quantifier.min) \o <<",">>
           \o FormatDec(quantifier.max) \o <<"}">>

\* Printer::print_escaped_char
PrintEscapedChar(kind) ==
    CASE kind.e = "Tab" -> <<"\\", "t">>
      [] kind.e = "NewLine" -> <<"\\", "n">>
      [] kind.e = "CarriageReturn" -> <<"\\", "r">>
      [] kind.e = "FormFeed" -> <<"\\", "f">>
      [] kind.e = "VerticalTab" -> <<"\\", "v">>
      [] kind.e = "Null" -> <<"\\", "0">>
      [] kind.e = "Hex" -> <<"\\", "x">> \o FormatHex02(kind.n)
      [] kind.e = "Unicode" ->
           <<"\\", "u", "{">> \o FormatHex(kind.n) \o <<"}">>

\* The CharacterType arm of Printer::print_node
PrintCharacterType(kind) ==
    CASE kind.k = "Word" -> <<"\\", "w">>
      [] kind.k = "NotWord" -> <<"\\", "W">>
      [] kind.k = "Digit" -> <<"\\", "d">>
      [] kind.k = "NotDigit" -> <<"\\", "D">>
      [] kind.k = "Whitespace" -> <<"\\", "s">>
      [] kind.k = "NotWhitespace" -> <<"\\", "S">>
      [] kind.k = "EscapedChar" -> PrintEscapedChar(kind)

\* The catch-all arm of Printer::print_node ("_ => String::new()"), taken
\* by Backreference, UnicodeCategory, Lookaround and FlagSet
PrintOther(node) == <<>>

\* The Group arm of Printer::print_node: contents is the printed body
PrintGroup(kind, contents) ==
    IF kind.k = "NonCapturing"
    THEN <<"(", "?", ":">> \o contents \o <<")">>
    ELSE IF kind.named
    THEN <<"(", "?", "<">> \o kind.name \o <<">">> \o contents \o <<")">>
    ELSE <<"(">> \o contents \o <<")">>

RECURSIVE PrintAst(_, _)
RECURSIVE PrintNode(_, _)
RECURSIVE PrintAlternatives(_, _)

\* The Alternation arm of Printer::print_node: the branches joined by "|"
PrintAlternatives(alternatives, esc) ==
    IF alternatives = <<>> THEN <<>>
    ELSE IF Len(alternatives) = 1
    THEN PrintAst(alternatives[1], esc)
    ELSE PrintAst(alternatives[1], esc) \o <<"|">>
         \o PrintAlternatives(Tail(alternatives), esc)

\* Printer::print_node
PrintNode(node, esc) ==
    CASE node.t = "Literal" -> PrintChar(node.c, esc)
      [] node.t = "CharacterClass" ->
           <<"[">> \o (IF node.negated THEN <<"^">> ELSE <<>>)
           \o PrintChars(node.chars, esc) \o <<"]">>
      [] node.t = "Dot" -> <<".">>
      [] node.t = "Anchor" ->
           IF node.anchor = "Start" THEN <<"^">> ELSE <<"$">>
      [] node.t = "WordBoundary" -> <<"\\", "b">>
      [] node.t = "Quantified" ->
           PrintNode(node.node, esc)
           \o PrintQuantifier(node.quantifier)
      [] node.t = "Group" -> PrintGroup(node.kind, PrintAst(node.nodes, esc))
      [] node.t = "Alternation" ->
           PrintAlternatives(node.alternatives, esc)
      [] node.t = "CharacterType" -> PrintCharacterType(node.kind)
      [] OTHER -> PrintOther(node)

\* Printer::print
PrintAst(ast, esc) ==
    IF ast = <<>> THEN <<>>
    ELSE PrintNode(Head(ast), esc)
         \o PrintAst(Tail(ast), esc)

---------------------------------------------------------------------------
(* The obfuscator (obfuscator.rs)                                          *)

\* A wrong rewrite of a literal, into the class of every other character:
\* C10 must tell it from ObfuscateLiteral
ObfuscateLiteralNegated(c) == new_char_class(<<c>>, TRUE)

\* Obfuscator::obfuscate_literal
ObfuscateLiteral(c) == new_char_class(<<c>>, FALSE)

\* A wrong rewrite of a class, which keeps it as it is: C11 must tell it
\* from ObfuscateClass
ObfuscateClassKept(chars) == new_char_class(chars, FALSE)

\* The non-negated CharacterClass arm of Obfuscator::obfuscate_node: one
\* single-character class per member, as the branches of an Alternation in
\* a non-capturing group
ObfuscateClass(chars) ==
    new_group(NonCapturing,
              <<new_alternation(
                    [i \in 1..Len(chars) |->
                        <<new_char_class(<<chars[i]>>, FALSE)>>])>>)

RECURSIVE ObfuscateNode(_)

\* Obfuscator::obfuscate
Obfuscate(ast) == [i \in 1..Len(ast) |-> ObfuscateNode(ast[i])]

\* A wrong obfuscate_node, which rewrites Dot as the negated empty class and
\* does not go below the top level: C13 must tell it from ObfuscateNode
ObfuscateNodeEager(node) ==
    CASE node.t = "Literal" -> ObfuscateLiteral(node.c)
      [] node.t = "Dot" -> new_char_class(<<>>, TRUE)
      [] OTHER -> node

\* Obfuscator::obfuscate_node
ObfuscateNode(node) ==
    CASE node.t = "Literal" -> ObfuscateLiteral(node.c)
      [] node.t = "CharacterClass" ->
           IF node.negated THEN node ELSE ObfuscateClass(node.chars)
      [] node.t = "Quantified" ->
           [node EXCEPT !.node = ObfuscateNode(node.node)]
      [] node.t = "Group" ->
           new_group(node.kind,
                     [i \in 1..Len(node.nodes) |-> ObfuscateNode(node.nodes[i])])
      [] node.t = "Alternation" ->
           new_alternation(
               [i \in 1..Len(node.alternatives) |->
                   [j \in 1..Len(node.alternatives[i]) |->
                       ObfuscateNode(node.alternatives[i][j])]])
      [] OTHER -> node

---------------------------------------------------------------------------
(* The pipeline: pattern text -> Parser -> tree -> (optional) Obfuscator   *)
(* -> tree -> Printer -> pattern text, and the printed text parsed again.  *)

\* All concatenations of at most n of the fragments F
RECURSIVE Concats(_, _)
Concats(F, n) ==
    IF n = 0 THEN {<<>>}
    ELSE LET P == Concats(F, n - 1)
         IN  P \cup {p \o f : p \in P, f \in F}

None == [some |-> FALSE]
Some(v) == [some |-> TRUE, v |-> v]

\* The state before Parser::new(input), for the patterns of Inputs and
\* the builds of Profiles
InitBuilt(Inputs, Profiles) ==
    /\ input \in Inputs
    /\ overflow_checks \in Profiles
    /\ pc = "start"
    /\ parsed = None
    /\ obfuscated = None
    /\ again = None
    /\ use_unicode_escapes = FALSE
    /\ printed = None
    /\ reparsed = None

\* The same for a build with overflow checks (the dev profile), for
\* patterns in which no number reaches UsizeMax
InitWith(Inputs) == InitBuilt(Inputs, {TRUE})

\* Parser::new(input).parse()
DoParse ==
    /\ pc = "start"
    /\ parsed' = Some(Parse(input))
    /\ pc' = "parsed"
    /\ UNCHANGED <<input, obfuscated, again, use_unicode_escapes, printed,
                   reparsed, overflow_checks>>

\* The states thread_rng() may hand to Obfuscator::new
RngStates == {0, 1}

\* Obfuscator::new, with the state of its randomness source
NewObfuscator(rng) == [rng |-> rng]

\* A wrong obfuscate, which lets the randomness source decide whether the
\* tree is rewritten: C14 must tell it from ObfuscateBy
ObfuscateBySeed(obfuscator, ast) ==
    IF obfuscator.rng = 0 THEN Obfuscate(ast) ELSE ast

\* Obfuscator::obfuscate on an instance: self.rng is never read
ObfuscateBy(obfuscator, ast) == Obfuscate(ast)

\* Obfuscator::new().obfuscate(tree), on the tree of a successful parse
DoObfuscate ==
    /\ pc = "parsed"
    /\ parsed.v.st = "Ok"
    /\ \E rng \in RngStates :
          obfuscated' = Some(ObfuscateBy(NewObfuscator(rng), parsed.v.val))
    /\ pc' = "obfuscated"
    /\ UNCHANGED <<input, parsed, again, use_unicode_escapes, printed, reparsed,
                   overflow_checks>>

\* A second run of obfuscate on the same tree, by the same or by another
\* Obfuscator, whatever its randomness source holds
DoObfuscateAgain ==
    /\ pc = "obfuscated"
    /\ \E rng \in RngStates :
          again' = Some(ObfuscateBy(NewObfuscator(rng), parsed.v.val))
    /\ pc' = "obfuscated_again"
    /\ UNCHANGED <<input, parsed, obfuscated, use_unicode_escapes, printed,
                   reparsed, overflow_checks>>

\* The tree the pipeline holds: the obfuscated one if the obfuscator ran
CurrentAst == IF obfuscated.some THEN obfuscated.v ELSE parsed.v.val

\* Printer::new(escapes).print(tree)
DoPrint ==
    /\ pc \in {"parsed", "obfuscated"}
    /\ parsed.v.st = "Ok"
    /\ \E escapes \in BOOLEAN :
          /\ use_unicode_escapes' = escapes
          /\ printed' = Some(PrintAst(CurrentAst, escapes))
    /\ pc' = "printed"
    /\ UNCHANGED <<input, parsed, obfuscated, again, reparsed, overflow_checks>>

\* Parser::new(printed).parse()
DoReparse ==
    /\ pc = "printed"
    /\ reparsed' = Some(Parse(printed.v))
    /\ pc' = "reparsed"
    /\ UNCHANGED <<input, parsed, obfuscated, again, use_unicode_escapes, printed,
                   overflow_checks>>

Next == DoParse \/ DoObfuscate \/ DoObfuscateAgain \/ DoPrint \/ DoReparse

\* Single characters as fragments
Chars(S) == {<<c>> : c \in S}

\* The longest pattern, in fragments, of the general specification
MaxFrags == 3

\* The fragments of the general specification: the characters and prefixes
\* that start each construct of the grammar
Frags ==
    Chars({"a", ".", "\\", "[", "]", "(", ")", "=", "|", "*", "L", "}"})
    \cup {<<"(", "?">>, <<"\\", "p", "{">>, <<"\\", "1">>}

Init == InitWith(Concats(Frags, MaxFrags))

Spec == Init /\ [][Next]_vars

\* The longest pattern, in characters, of the alternation specification
MaxAltLen == 6

\* Patterns of literals, '|' and plain groups
AltChars == {"a", "b", "|", "(", ")"}

InitAlt == InitWith(Concats(Chars(AltChars), MaxAltLen))

SpecAlt == InitAlt /\ [][Next]_vars

\* The longest pattern, in fragments, of the group specification
MaxGroupFrags == 4

\* Patterns of groups of every capturing kind and numeric backreferences
GroupFrags ==
    {<<"(">>, <<")">>, <<"a">>, <<"\\", "1">>, <<"\\", "2">>,
     <<"(", "?", "<", "n", ">">>, <<"(", "?", ":">>}

InitGroups == InitWith(Concats(GroupFrags, MaxGroupFrags))

SpecGroups == InitGroups /\ [][Next]_vars

\* The longest pattern, in fragments, of the inline-flag specification
MaxFlagFrags == 4

\* Patterns with inline flags, trailing and scoped
FlagFrags ==
    {<<"(", "?", "i", ")">>, <<"(", "?", "i", "m", ")">>,
     <<"(", "?", "i", ":">>, <<"(", "?", "s", ":">>,
     <<"a">>, <<".">>, <<"|">>, <<")">>, <<"(">>}

InitFlags == InitWith(Concats(FlagFrags, MaxFlagFrags))

SpecFlags == InitFlags /\ [][Next]_vars

---------------------------------------------------------------------------
(* Reading trees and pattern text, for the properties below                *)

\* The elements of a sequence
Elems(seq) == {seq[i] : i \in 1..Len(seq)}

\* The concatenation of a sequence of sequences
RECURSIVE Flatten(_)
Flatten(seqs) ==
    IF seqs = <<>> THEN <<>> ELSE Head(seqs) \o Flatten(Tail(seqs))

\* The child nodes a node owns, in source order
Children(node) ==
    CASE node.t = "Quantified" -> <<node.node>>
      [] node.t \in {"Group", "Lookaround", "FlagSet"} -> node.nodes
      [] node.t = "Alternation" -> Flatten(node.alternatives)
      [] OTHER -> <<>>

\* Every node of a tree, at any depth, in pre-order
RECURSIVE PreOrder(_)
PreOrder(ast) ==
    IF ast = <<>> THEN <<>>
    ELSE <<Head(ast)>> \o PreOrder(Children(Head(ast))) \o PreOrder(Tail(ast))

AllNodes(ast) == Elems(PreOrder(ast))

\* Nesting depth of the text after its first i characters: '(' minus ')'
RECURSIVE DepthAt(_, _)
DepthAt(s, i) ==
    IF i = 0 THEN 0
    ELSE DepthAt(s, i - 1)
         + (IF s[i] = "(" THEN 1 ELSE IF s[i] = ")" THEN -1 ELSE 0)

\* The text up to the first ')' that closes nothing, where the top-level
\* parse_alternation stops
Scanned(s) ==
    LET stops == {i \in 1..Len(s) : DepthAt(s, i) < 0}
    IN  IF stops = {} THEN s
        ELSE SubSeq(s, 1, (CHOOSE i \in stops : \A j \in stops : i <= j) - 1)

\* Every '(' of the text is closed
Balanced(s) == DepthAt(s, Len(s)) = 0

\* The positions of the '|' at nesting depth 0
TopBars(s) == {i \in 1..Len(s) : s[i] = "|" /\ DepthAt(s, i) = 0}

\* The text between the '|' at depth 0, in source order
RECURSIVE SplitFrom(_, _)
SplitFrom(s, from) ==
    LET bars == {i \in TopBars(s) : i >= from}
        next == CHOOSE i \in bars : \A j \in bars : i <= j
    IN  IF bars = {} THEN <<SubSeq(s, from, Len(s))>>
        ELSE <<SubSeq(s, from, next - 1)>> \o SplitFrom(s, next + 1)

SplitTop(s) == SplitFrom(s, 1)

\* Some branch of some alternation of the text is empty: a '|' that starts
\* the text or a group, ends the text or a group, or follows another '|'
HasEmptyBranch(s) ==
    \E i \in 1..Len(s) :
        /\ s[i] = "|"
        /\ \/ i = 1
           \/ i = Len(s)
           \/ s[i - 1] = "|"
           \/ s[i + 1] \in {"|", ")"}
           \/ /\ s[i - 1] \in {"(", ":", ">", "=", "!"}
              /\ DepthAt(s, i - 1) > 0

\* Every Alternation node of the tree has at least 2 branches, none empty
WellFormedAlternations(ast) ==
    \A n \in AllNodes(ast) :
        n.t = "Alternation" =>
            /\ Len(n.alternatives) >= 2
            /\ \A i \in 1..Len(n.alternatives) : n.alternatives[i] # <<>>

---------------------------------------------------------------------------
(* C1 .. C3: the general specification                                     *)

\* C1: round trip.  For every pattern the parser accepts, parsing the text
\* printed from its tree with use_unicode_escapes = false succeeds and
\* yields a node sequence equal to the first one.
C1_RoundTrip ==
    (pc = "reparsed" /\ ~obfuscated.some /\ ~use_unicode_escapes) =>
        /\ reparsed.v.st = "Ok"
        /\ reparsed.v.val = parsed.v.val

\* C2: for every input string Parser::parse returns Ok or an Err of the
\* closed taxonomy; it never faults on a read at the cursor.
C2_NeverFaults ==
    pc = "parsed" =>
        \/ parsed.v.st = "Ok"
        \/ parsed.v.st = "Err" /\ parsed.v.err \in ParseErrors

\* C3: the printer is total.  For every node of a tree, of whatever
\* variant, print_node returns a non-empty string under both escape modes.
C3_PrinterTotal ==
    (pc = "parsed" /\ parsed.v.st = "Ok") =>
        \A n \in AllNodes(parsed.v.val) :
            \A esc \in BOOLEAN : PrintNode(n, esc) # <<>>

---------------------------------------------------------------------------
(* C4, C5: inline flags (SpecFlags)                                        *)

\* The index after the run of flag letters that starts at index i
RECURSIVE FlagRun(_, _)
FlagRun(s, i) ==
    IF i <= Len(s) /\ s[i] \in {"i", "m", "s"} THEN FlagRun(s, i + 1) ELSE i

\* The text starts with '(?' and one or more flag letters
HasFlagPrefix(s) ==
    Len(s) >= 3 /\ s[1] = "(" /\ s[2] = "?" /\ FlagRun(s, 3) > 3

FlagLetters(s) == SubSeq(s, 3, FlagRun(s, 3) - 1)

\* The flags a run of letters stands for: each letter merged in
RECURSIVE FlagsOfText(_)
FlagsOfText(letters) ==
    IF letters = <<>> THEN RegexFlagsNew
    ELSE FlagsMerge(FlagsFromChar(Head(letters)).flags,
                    FlagsOfText(Tail(letters)))

\* The text is a pattern the parser accepts and consumes entirely
Accepted(s) == Parse(s).st = "Ok" /\ Parse(s).pos = Len(s)

\* '(?F)rest'
IsTrailingForm(s) ==
    HasFlagPrefix(s) /\ FlagRun(s, 3) <= Len(s) /\ s[FlagRun(s, 3)] = ")"

TrailingRest(s) == SubSeq(s, FlagRun(s, 3) + 1, Len(s))

\* '(?F:'
IsScopedForm(s) ==
    HasFlagPrefix(s) /\ FlagRun(s, 3) <= Len(s) /\ s[FlagRun(s, 3)] = ":"

\* The index of the ')' that closes the '(' at index 1; 0 if there is none
ClosingIndex(s) ==
    LET closes == {j \in 1..Len(s) : DepthAt(s, j) = 0}
    IN  IF closes = {} THEN 0
        ELSE CHOOSE j \in closes : \A k \in closes : j <= k

ScopedBody(s) ==
    SubSeq(s, FlagRun(s, 3) + 1,
           IF ClosingIndex(s) = 0 THEN Len(s) ELSE ClosingIndex(s) - 1)

ScopedRest(s) == SubSeq(s, ClosingIndex(s) + 1, Len(s))

\* C4: trailing inline flags.  '(?F)' followed by atoms a1..an of the same
\* branch parses to the single node FlagSet(flags of F, [a1..an]); the atoms
\* are not appended to the outer sequence.
C4_TrailingFlags ==
    (/\ pc = "parsed"
     /\ IsTrailingForm(input)
     /\ TrailingRest(input) # <<>>
     /\ Accepted(TrailingRest(input))
     /\ TopBars(TrailingRest(input)) = {}) =>
        /\ parsed.v.st = "Ok"
        /\ parsed.v.val =
               <<new_flag_set(FlagsOfText(FlagLetters(input)),
                              Parse(TrailingRest(input)).val)>>

\* C5: scoped inline flags.  '(?F:body)rest' parses to FlagSet(flags of F,
\* parse of body) followed in the outer sequence by the nodes of rest, and
\* '(?F:body' with no closing ')' is an error.
C5_ScopedFlags ==
    (/\ pc = "parsed"
     /\ IsScopedForm(input)
     /\ Accepted(ScopedBody(input))) =>
        IF ClosingIndex(input) = 0
        THEN parsed.v.st = "Err"
        ELSE (Accepted(ScopedRest(input)) /\ TopBars(ScopedRest(input)) = {}) =>
                 /\ parsed.v.st = "Ok"
                 /\ parsed.v.val =
                        <<new_flag_set(FlagsOfText(FlagLetters(input)),
                                       Parse(ScopedBody(input)).val)>>
                        \o Parse(ScopedRest(input)).val

---------------------------------------------------------------------------
(* C6, C7: group numbering and numeric backreferences (SpecGroups)         *)

\* The character at index i is escaped by a '\' before it
RECURSIVE IsEscaped(_, _)
IsEscaped(s, i) == i > 1 /\ s[i - 1] = "\\" /\ ~IsEscaped(s, i - 1)

\* The index after the run of name characters that starts at index i
RECURSIVE NameRun(_, _)
NameRun(s, i) ==
    IF i <= Len(s) /\ (IsAlphanumeric(s[i]) \/ s[i] = "_")
    THEN NameRun(s, i + 1)
    ELSE i

\* For a '(' at index i: the index of the last character of its opening
\* delimiter if it opens a capturing group ('(' itself for an unnamed group,
\* the '>' of '(?<name>' for a named one), 0 if it does not
OpenerEnd(s, i) ==
    IF i < Len(s) /\ s[i + 1] = "?"
    THEN IF /\ i + 3 <= Len(s)
            /\ s[i + 2] = "<"
            /\ NameRun(s, i + 3) > i + 3
            /\ NameRun(s, i + 3) <= Len(s)
            /\ s[NameRun(s, i + 3)] = ">"
         THEN NameRun(s, i + 3)
         ELSE 0
    ELSE i

\* The number of capturing-group openers, of either kind, that lie entirely
\* within the first pos characters of the text (text without classes)
CapturingOpeners(s, pos) ==
    Cardinality({i \in 1..Len(s) :
                    /\ s[i] = "("
                    /\ ~IsEscaped(s, i)
                    /\ OpenerEnd(s, i) # 0
                    /\ OpenerEnd(s, i) <= pos})

\* The indexes of the '\' that start a numeric escape
NumericEscapes(s) ==
    {i \in 1..(Len(s) - 1) :
        /\ s[i] = "\\"
        /\ ~IsEscaped(s, i)
        /\ s[i + 1] \in Digits \ {"0"}}

\* The number of characters scanned when the digit run of the escape at
\* index i has been read, and the number the run stands for
EscapeEnd(s, i) == DigitRunEnd(s, i)
EscapeValue(s, i) == DecValue(Slice(s, i, DigitRunEnd(s, i)))

\* The escape at index i names a capturing group opened before it
ValidEscape(s, i) ==
    /\ 1 <= EscapeValue(s, i)
    /\ EscapeValue(s, i) <= CapturingOpeners(s, i - 1)

\* The values of the numeric escapes at index from or later that end
\* within the first pos characters, in source order
RECURSIVE EscapeValues(_, _, _)
EscapeValues(s, from, pos) ==
    IF from > Len(s) THEN <<>>
    ELSE IF from \in NumericEscapes(s) /\ EscapeEnd(s, from) <= pos
    THEN <<EscapeValue(s, from)>> \o EscapeValues(s, from + 1, pos)
    ELSE EscapeValues(s, from + 1, pos)

\* The numbers of the NumberBased backreferences of a tree, in pre-order
RECURSIVE BackrefNumbersOf(_)
BackrefNumbersOf(nodes) ==
    IF nodes = <<>> THEN <<>>
    ELSE IF Head(nodes).t = "Backreference" /\ Head(nodes).kind.k = "NumberBased"
    THEN <<Head(nodes).kind.n>> \o BackrefNumbersOf(Tail(nodes))
    ELSE BackrefNumbersOf(Tail(nodes))

BackrefNumbers(ast) == BackrefNumbersOf(PreOrder(ast))

\* C6: a numeric escape '\n' parses to Backreference(NumberBased(n)) if and
\* only if 1 <= n <= the number of capturing groups, named or not, closed
\* or still open, whose opening delimiter was scanned before it; otherwise
\* the parse fails at it with InvalidBackreference.
C6_NumericBackreference ==
    pc = "parsed" =>
        /\ \A i \in NumericEscapes(input) :
               EscapeEnd(input, i) <= parsed.v.pos =>
                   (ValidEscape(input, i) <=>
                        ~(/\ parsed.v.st = "Err"
                          /\ parsed.v.err = "InvalidBackreference"
                          /\ parsed.v.pos = EscapeEnd(input, i)))
        /\ parsed.v.st = "Ok" =>
               BackrefNumbers(parsed.v.val)
                   = EscapeValues(input, 1, parsed.v.pos)

\* C7: every capturing group, unnamed or named, receives the next index
\* when its opening delimiter is scanned: wherever the scan stands, the
\* group count equals the number of capturing-group openers scanned so far.
C7_GroupCount ==
    (pc = "parsed" /\ parsed.v.st # "Panic") =>
        parsed.v.gc = CapturingOpeners(input, parsed.v.pos)

---------------------------------------------------------------------------
(* C8, C9: alternation (SpecAlt)                                           *)

BranchTrees(s) ==
    [i \in 1..Len(SplitTop(s)) |-> Parse(SplitTop(s)[i]).val]

\* C9: alternation wrapping.  With no '|' at its own level a pattern or
\* group body is returned as its plain node sequence, no element of which is
\* an Alternation; with k >= 1 separators at its own level and all branches
\* non-empty it is returned as the one-element sequence [Alternation] whose
\* branches are the atom sequences between the separators, in source order.
\* A group's children are the result for its body.
C9_AlternationWrapping ==
    pc = "parsed" =>
        /\ (parsed.v.st = "Ok" /\ TopBars(Scanned(input)) = {}) =>
               \A i \in 1..Len(parsed.v.val) :
                   parsed.v.val[i].t # "Alternation"
        /\ (parsed.v.st = "Ok" /\ TopBars(Scanned(input)) # {}) =>
               parsed.v.val = <<new_alternation(BranchTrees(Scanned(input)))>>
        /\ (/\ TopBars(Scanned(input)) # {}
            /\ \A i \in 1..Len(SplitTop(Scanned(input))) :
                   /\ SplitTop(Scanned(input))[i] # <<>>
                   /\ Accepted(SplitTop(Scanned(input))[i])) =>
               parsed.v.st = "Ok"
        /\ (/\ parsed.v.st = "Ok"
            /\ Len(input) >= 2
            /\ input[1] = "("
            /\ ClosingIndex(input) = Len(input)) =>
               parsed.v.val =
                   <<new_group(CapturingNone,
                               Parse(SubSeq(input, 2, Len(input) - 1)).val)>>

\* A pattern of three branches is accepted, one branch being a group whose
\* body is itself an alternation or a plain sequence
C9_Witness ==
    /\ pc = "parsed"
    /\ parsed.v.st = "Ok"
    /\ parsed.v.pos = Len(input)
    /\ Cardinality(TopBars(input)) >= 2
    /\ \E i \in 1..Len(input) : input[i] = "("

---------------------------------------------------------------------------
(* C10: a reference matcher for the tree model, after the "Meaning" column *)
(* of the data model; the repository has none.  It backtracks in priority  *)
(* order: a match state is the position reached and the captures made, and *)
(* matching returns the states reached, the preferred one first.           *)

AlphabetLower ==
    <<"a", "b", "c", "d", "e", "f", "g", "h", "i", "j", "k", "l", "m",
      "n", "o", "p", "q", "r", "s", "t", "u", "v", "w", "x", "y", "z">>

AlphabetUpper ==
    <<"A", "B", "C", "D", "E", "F", "G", "H", "I", "J", "K", "L", "M",
      "N", "O", "P", "Q", "R", "S", "T", "U", "V", "W", "X", "Y", "Z">>

\* Case folding of the ASCII letters
Fold(c) ==
    IF c \in UpperLetters
    THEN AlphabetLower[CHOOSE i \in 1..Len(AlphabetUpper) : AlphabetUpper[i] = c]
    ELSE c

\* Character x of the subject is the pattern's character c
SameChar(flags, x, c) ==
    x = c \/ (flags.case_insensitive /\ Fold(x) = Fold(c))

IsWordChar(c) == IsAlphanumeric(c) \/ c = "_"

\* EscapedChar: the one character the escape stands for
EscapedMatches(kind, x) ==
    CASE kind.e \in {"Hex", "Unicode"} ->
             (\E i \in 1..Len(Ascii) : Ascii[i] = x) /\ CodePoint(x) = kind.n
      [] kind.e = "NewLine" -> x = "\n"
      [] kind.e = "Tab" -> x = "\t"
      [] kind.e = "CarriageReturn" -> x = "\r"
      [] kind.e = "FormFeed" -> x = "\f"
      [] OTHER -> FALSE

\* CharacterType: predefined class or control-character escape
TypeMatches(kind, x) ==
    CASE kind.k = "Word" -> IsWordChar(x)
      [] kind.k = "NotWord" -> ~IsWordChar(x)
      [] kind.k = "Digit" -> IsAsciiDigit(x)
      [] kind.k = "NotDigit" -> ~IsAsciiDigit(x)
      [] kind.k = "Whitespace" -> x \in {" ", "\n", "\t", "\r", "\f"}
      [] kind.k = "NotWhitespace" -> x \notin {" ", "\n", "\t", "\r", "\f"}
      [] kind.k = "EscapedChar" -> EscapedMatches(kind, x)

\* UnicodeCategory: the general category, on the ASCII characters
CategoryMatches(category, x) ==
    CASE category = "Letter" -> x \in LowerLetters \cup UpperLetters
      [] category = "Number" -> x \in Digits
      [] category = "Punctuation" ->
             x \in {"!", "\"", "#", "%", "&", "'", "(", ")", "*", ",", "-", ".",
                    "/", ":", ";", "?", "@", "[", "\\", "]", "_", "{", "}"}
      [] category = "Symbol" -> x \in {"$", "+", "<", "=", ">", "^", "|", "~"}
      [] category = "Separator" -> x = " "
      [] OTHER -> FALSE

\* The nodes that match one character: whether they match character x
CharMatches(node, flags, x) ==
    CASE node.t = "Literal" -> SameChar(flags, x, node.c)
      [] node.t = "CharacterClass" ->
             (\E i \in 1..Len(node.chars) : SameChar(flags, x, node.chars[i]))
                 # node.negated
      [] node.t = "Dot" -> flags.dot_all \/ x # "\n"
      [] node.t = "CharacterType" -> TypeMatches(node.kind, x)
      [] node.t = "UnicodeCategory" ->
             CategoryMatches(node.category, x) # node.negated

\* The zero-width assertions on a position
AnchorHolds(node, flags, subj, pos) ==
    IF node.anchor = "Start"
    THEN pos = 0 \/ (flags.multiline /\ subj[pos] = "\n")
    ELSE pos = Len(subj) \/ (flags.multiline /\ subj[pos + 1] = "\n")

WordBoundaryHolds(subj, pos) ==
    (pos > 0 /\ IsWordChar(subj[pos]))
        # (pos < Len(subj) /\ IsWordChar(subj[pos + 1]))

\* The least and the greatest number of repetitions (-1: no limit), and
\* whether fewer are preferred
QMin(q) ==
    CASE q.q \in {"ZeroOrMore", "ZeroOrOne"} -> 0
      [] q.q = "OneOrMore" -> 1
      [] q.q \in {"Exactly", "AtLeast"} -> q.n
      [] q.q = "Range" -> q.min

QMax(q) ==
    CASE q.q \in {"ZeroOrMore", "OneOrMore", "AtLeast"} -> -1
      [] q.q = "ZeroOrOne" -> 1
      [] q.q = "Exactly" -> q.n
      [] q.q = "Range" -> q.max

QLazy(q) == q.q \in {"ZeroOrMore", "OneOrMore", "ZeroOrOne"} /\ q.lazy

\* The capturing groups of a node sequence: a group's index is its rank in
\* pre-order, the order in which the opening delimiters are scanned
IsCapturing(node) == node.t = "Group" /\ node.kind.k = "Capturing"

RECURSIVE CountCapturing(_)
CountCapturing(nodes) ==
    IF nodes = <<>> THEN 0
    ELSE (IF IsCapturing(Head(nodes)) THEN 1 ELSE 0)
         + CountCapturing(Tail(nodes))

CountGroups(nodes) == CountCapturing(PreOrder(nodes))

\* Match states
MatchState(pos, caps, names) == [pos |-> pos, caps |-> caps, names |-> names]

InitState(ast, start) ==
    MatchState(start,
               [i \in 1..CountGroups(ast) |-> <<>>],
               [i \in 1..CountGroups(ast) |-> <<>>])

\* One character consumed, if the node matches it
StepChar(node, flags, subj, st) ==
    IF st.pos < Len(subj) /\ CharMatches(node, flags, subj[st.pos + 1])
    THEN <<[st EXCEPT !.pos = @ + 1]>>
    ELSE <<>>

\* The text is read again at the position of st
StepText(text, flags, subj, st) ==
    IF /\ st.pos + Len(text) <= Len(subj)
       /\ \A i \in 1..Len(text) : SameChar(flags, subj[st.pos + i], text[i])
    THEN <<[st EXCEPT !.pos = @ + Len(text)]>>
    ELSE <<>>

\* Backreference: the text the group captured, or no match if it has none
CapturedGroups(kind, st) ==
    IF kind.k = "NumberBased"
    THEN {i \in 1..Len(st.caps) : i = kind.n /\ st.caps[i] # <<>>}
    ELSE {i \in 1..Len(st.caps) : st.names[i] = kind.name /\ st.caps[i] # <<>>}

StepBackreference(groups, flags, subj, st) ==
    IF groups = {} THEN <<>>
    ELSE StepText(SubSeq(subj,
                         st.caps[CHOOSE i \in groups : \A j \in groups : i <= j][1] + 1,
                         st.caps[CHOOSE i \in groups : \A j \in groups : i <= j][2]),
                  flags, subj, st)

\* A capturing group is entered, and left at each of the states reached
OpenCapture(st, idx, kind) ==
    [st EXCEPT !.names[idx] = IF kind.named THEN kind.name ELSE <<>>]

CloseCapture(idx, from, states) ==
    [i \in 1..Len(states) |->
        [states[i] EXCEPT !.caps[idx] = <<from, states[i].pos>>]]

\* The states that end at position pos
EndingAt(states, pos) ==
    LET Ends(s) == s.pos = pos IN SelectSeq(states, Ends)

\* A lookahead keeps the position and, if positive, the captures made
LookaheadResult(kind, st, states) ==
    IF kind = "PositiveLookahead"
    THEN IF states = <<>> THEN <<>> ELSE <<[Head(states) EXCEPT !.pos = st.pos]>>
    ELSE IF states = <<>> THEN <<st>> ELSE <<>>

LookbehindResult(kind, st, states) ==
    IF kind = "PositiveLookbehind"
    THEN IF states = <<>> THEN <<>> ELSE <<Head(states)>>
    ELSE IF states = <<>> THEN <<st>> ELSE <<>>

\* Repetition: the preferred continuation first
InOrder(q, more, stop) == IF QLazy(q) THEN stop \o more ELSE more \o stop

RECURSIVE MatchNode(_, _, _, _, _)
RECURSIVE MatchNodes(_, _, _, _, _)
RECURSIVE MatchEach(_, _, _, _, _)
RECURSIVE MatchBranches(_, _, _, _, _)
RECURSIVE Repeat(_, _, _, _, _, _)
RECURSIVE RepeatEach(_, _, _, _, _, _, _)
RECURSIVE Behind(_, _, _, _, _, _)

\* A node sequence, from each of the states in turn
MatchNodes(nodes, base, flags, subj, states) ==
    IF nodes = <<>> \/ states = <<>> THEN states
    ELSE MatchNodes(Tail(nodes), base + CountGroups(<<Head(nodes)>>), flags, subj,
                    MatchEach(Head(nodes), base, flags, subj, states))

MatchEach(node, base, flags, subj, states) ==
    IF states = <<>> THEN <<>>
    ELSE MatchNode(node, base, flags, subj, Head(states))
         \o MatchEach(node, base, flags, subj, Tail(states))

\* Alternation: first-match-wins choice among the branches
MatchBranches(alternatives, base, flags, subj, st) ==
    IF alternatives = <<>> THEN <<>>
    ELSE MatchNodes(Head(alternatives), base, flags, subj, <<st>>)
         \o MatchBranches(Tail(alternatives),
                          base + CountGroups(Head(alternatives)),
                          flags, subj, st)

\* Quantified: done repetitions of the child have been matched up to st
Repeat(node, base, flags, subj, done, st) ==
    InOrder(node.quantifier,
            IF QMax(node.quantifier) = -1 \/ done < QMax(node.quantifier)
            THEN RepeatEach(node, base, flags, subj, done, st.pos,
                            MatchNode(node.node, base, flags, subj, st))
            ELSE <<>>,
            IF done >= QMin(node.quantifier) THEN <<st>> ELSE <<>>)

\* One more repetition from each state the child reached; a repetition
\* that is not required and consumed nothing is not repeated
RepeatEach(node, base, flags, subj, done, from, states) ==
    IF states = <<>> THEN <<>>
    ELSE (IF Head(states).pos > from \/ done < QMin(node.quantifier)
          THEN Repeat(node, base, flags, subj, done + 1, Head(states))
          ELSE <<>>)
         \o RepeatEach(node, base, flags, subj, done, from, Tail(states))

\* Lookbehind: the children match some text that ends at st, the nearest
\* start first
Behind(nodes, base, flags, subj, st, k) ==
    IF k < 0 THEN <<>>
    ELSE EndingAt(MatchNodes(nodes, base, flags, subj, <<[st EXCEPT !.pos = k]>>),
                  st.pos)
         \o Behind(nodes, base, flags, subj, st, k - 1)

\* One node, from state st; base capturing groups are opened before it
MatchNode(node, base, flags, subj, st) ==
    CASE node.t \in {"Literal", "CharacterClass", "Dot", "CharacterType",
                     "UnicodeCategory"} ->
             StepChar(node, flags, subj, st)
      [] node.t = "Anchor" ->
             IF AnchorHolds(node, flags, subj, st.pos) THEN <<st>> ELSE <<>>
      [] node.t = "WordBoundary" ->
             IF WordBoundaryHolds(subj, st.pos) THEN <<st>> ELSE <<>>
      [] node.t = "Quantified" -> Repeat(node, base, flags, subj, 0, st)
      [] node.t = "Group" ->
             IF IsCapturing(node)
             THEN CloseCapture(base + 1, st.pos,
                               MatchNodes(node.nodes, base + 1, flags, subj,
                                          <<OpenCapture(st, base + 1, node.kind)>>))
             ELSE MatchNodes(node.nodes, base, flags, subj, <<st>>)
      [] node.t = "Backreference" ->
             StepBackreference(CapturedGroups(node.kind, st), flags, subj, st)
      [] node.t = "Alternation" ->
             MatchBranches(node.alternatives, base, flags, subj, st)
      [] node.t = "Lookaround" ->
             IF node.kind \in {"PositiveLookahead", "NegativeLookahead"}
             THEN LookaheadResult(node.kind, st,
                                  MatchNodes(node.nodes, base, flags, subj, <<st>>))
             ELSE LookbehindResult(node.kind, st,
                                   Behind(node.nodes, base, flags, subj, st, st.pos))
      [] node.t = "FlagSet" ->
             MatchNodes(node.nodes, base, FlagsMerge(flags, node.flags), subj, <<st>>)

\* The outcome of a match attempt: the preferred state reached, if any
First(states) ==
    IF states = <<>> THEN [matched |-> FALSE]
    ELSE [matched |-> TRUE, end |-> Head(states).pos, caps |-> Head(states).caps]

\* The outcome of matching the tree at position start of the subject
Outcome(ast, subj, start) ==
    First(MatchNodes(ast, 0, RegexFlagsNew, subj, <<InitState(ast, start)>>))

\* The match outcome of a tree on a subject: the outcome at every start
MatchOutcome(ast, subj) == [start \in 0..Len(subj) |-> Outcome(ast, subj, start)]

\* The longest pattern, in fragments, and the longest subject
MaxObfFrags == 4
MaxSubjectLen == 2

ObfFrags ==
    Chars({"a", "(", ")", "|", "*"})
        \cup {<<"[", "a", "b", "]">>, <<"[", "^", "a", "]">>, <<"\\", "1">>,
              <<"(", "?", "=">>}

Subjects == Concats(Chars({"a", "b"}), MaxSubjectLen)

InitObf == InitWith(Concats(ObfFrags, MaxObfFrags))

SpecObf == InitObf /\ [][Next]_vars

\* C10: semantic preservation.  For every tree the parser returns and every
\* subject, the reference matcher gives the same match outcome on the tree
\* and on the tree Obfuscator::obfuscate makes of it.
C10_SemanticPreservation ==
    pc = "obfuscated" =>
        \A subj \in Subjects :
            MatchOutcome(obfuscated.v, subj) = MatchOutcome(parsed.v.val, subj)

\* A tree with a literal and a class of two members was rewritten, and it
\* matches some subject over more than one character and not another
C10_Witness ==
    /\ pc = "obfuscated"
    /\ obfuscated.v # parsed.v.val
    /\ \E n \in AllNodes(parsed.v.val) : n.t = "Literal"
    /\ \E n \in AllNodes(parsed.v.val) :
           n.t = "CharacterClass" /\ ~n.negated /\ Len(n.chars) >= 2
    /\ \E subj \in Subjects :
           /\ Outcome(parsed.v.val, subj, 0).matched
           /\ Outcome(parsed.v.val, subj, 0).end >= 2
    /\ \E subj \in Subjects : ~Outcome(parsed.v.val, subj, 0).matched

---------------------------------------------------------------------------
(* C11 .. C14: the transformer on the trees of leaf-rich patterns          *)

\* The longest pattern, in fragments, given to the transformer
MaxLeafFrags == 3

LeafFrags ==
    Chars({"a", ".", "^", "(", ")", "|", "*"})
        \cup {<<"[", "a", "b", "]">>, <<"[", "^", "a", "]">>, <<"\\", "b">>,
              <<"\\", "w">>, <<"\\", "p", "{", "L", "}">>, <<"\\", "1">>,
              <<"(", "?", "=">>}

InitLeaf == InitWith(Concats(LeafFrags, MaxLeafFrags))

SpecLeaf == InitLeaf /\ [][Next]_vars

\* The pairs <<n, m>> of a node n of the tree orig and the node m at the
\* same position of the tree out, going down through the wrappers named
\* for as long as the two trees have the same ones
RECURSIVE NodePairsIn(_, _, _)
NodePairsIn(orig, out, wrappers) ==
    IF Len(orig) # Len(out) THEN {}
    ELSE UNION {{<<orig[i], out[i]>>}
                    \cup (IF orig[i].t = out[i].t /\ orig[i].t \in wrappers
                          THEN NodePairsIn(Children(orig[i]), Children(out[i]),
                                           wrappers)
                          ELSE {})
                : i \in 1..Len(orig)}

\* At every position of the tree
NodePairs(orig, out) ==
    NodePairsIn(orig, out,
                {"Quantified", "Group", "Alternation", "Lookaround", "FlagSet"})

\* At the top level and below Quantified, Group and Alternation nodes
WalkedPairs(orig, out) ==
    NodePairsIn(orig, out, {"Quantified", "Group", "Alternation"})

\* The rewrite the policy gives a non-negated class of members chars
ClassAsAlternation(chars) ==
    [t |-> "Group",
     kind |-> [k |-> "NonCapturing"],
     nodes |-> <<[t |-> "Alternation",
                  alternatives |->
                      [i \in 1..Len(chars) |->
                          <<[t |-> "CharacterClass", negated |-> FALSE,
                             chars |-> <<chars[i]>>]>>]]>>]

\* C11: leaf policy.  Literal(c) becomes the class [c]; a non-negated class
\* of members c1..cN becomes Group(NonCapturing, [Alternation]) of the N
\* one-element branches [class [ci]], in member order; a negated class is
\* returned unchanged.
C11_LeafPolicy ==
    pc = "obfuscated" =>
        \A p \in WalkedPairs(parsed.v.val, obfuscated.v) :
            /\ p[1].t = "Literal" =>
                   p[2] = [t |-> "CharacterClass", negated |-> FALSE,
                           chars |-> <<p[1].c>>]
            /\ (p[1].t = "CharacterClass" /\ ~p[1].negated) =>
                   p[2] = ClassAsAlternation(p[1].chars)
            /\ (p[1].t = "CharacterClass" /\ p[1].negated) => p[2] = p[1]

\* A literal, a class of two members and a negated class were rewritten
C11_Witness ==
    /\ pc = "obfuscated"
    /\ \E p \in WalkedPairs(parsed.v.val, obfuscated.v) : p[1].t = "Literal"
    /\ \E p \in WalkedPairs(parsed.v.val, obfuscated.v) :
           p[1].t = "CharacterClass" /\ ~p[1].negated /\ Len(p[1].chars) = 2
    /\ \E p \in WalkedPairs(parsed.v.val, obfuscated.v) :
           p[1].t = "CharacterClass" /\ p[1].negated

\* What a wrapper node keeps of itself whatever its children are
WrapperOf(node) ==
    CASE node.t = "Quantified" -> [t |-> node.t, quantifier |-> node.quantifier]
      [] node.t \in {"Group", "Lookaround"} -> [t |-> node.t, kind |-> node.kind]
      [] node.t = "FlagSet" -> [t |-> node.t, flags |-> node.flags]
      [] node.t = "Alternation" ->
             [t |-> node.t, branches |-> Len(node.alternatives)]
      [] OTHER -> [t |-> "leaf"]

\* C12: recursion.  Quantified, Group, Lookaround, FlagSet and Alternation
\* nodes keep their wrapper (quantifier, kind, flags, branch count) and the
\* rewrite is applied to every child, so that no Literal node remains
\* anywhere in the output tree, Lookaround and FlagSet bodies included.
C12_Recursion ==
    pc = "obfuscated" =>
        /\ \A p \in NodePairs(parsed.v.val, obfuscated.v) :
               WrapperOf(p[1]).t # "leaf" => WrapperOf(p[2]) = WrapperOf(p[1])
        /\ \A n \in AllNodes(obfuscated.v) : n.t # "Literal"

\* The variants the policy passes through
PassedThrough ==
    {"Dot", "Anchor", "WordBoundary", "CharacterType", "UnicodeCategory",
     "Backreference"}

\* The passed-through nodes of a node sequence, in order
RECURSIVE PassedOf(_)
PassedOf(nodes) ==
    IF nodes = <<>> THEN <<>>
    ELSE (IF Head(nodes).t \in PassedThrough THEN <<Head(nodes)>> ELSE <<>>)
         \o PassedOf(Tail(nodes))

\* C13: pass-through.  Every Dot, Anchor, WordBoundary, CharacterType,
\* UnicodeCategory and Backreference node of the input is found unchanged at
\* the same position of the output, and the output has no other such node.
C13_PassThrough ==
    pc = "obfuscated" =>
        /\ \A p \in NodePairs(parsed.v.val, obfuscated.v) :
               p[1].t \in PassedThrough => p[2] = p[1]
        /\ PassedOf(PreOrder(obfuscated.v)) = PassedOf(PreOrder(parsed.v.val))

\* A tree with a literal and, below a wrapper, a passed-through node was
\* rewritten
C13_Witness ==
    /\ pc = "obfuscated"
    /\ obfuscated.v # parsed.v.val
    /\ \E i \in 1..Len(parsed.v.val) :
           /\ WrapperOf(parsed.v.val[i]).t # "leaf"
           /\ PassedOf(PreOrder(Children(parsed.v.val[i]))) # <<>>

---------------------------------------------------------------------------
(* C15: the printer's escape mode                                          *)

\* The text of character c under the escape mode: '\u{HEX}' of its code
\* point (two hexadecimal digits for the printable ASCII characters), or
\* the character itself
CharText(c, esc) ==
    IF esc
    THEN <<"\\", "u", "{",
           HexDigitsUpper[(CodePoint(c) \div 16) + 1],
           HexDigitsUpper[(CodePoint(c) % 16) + 1],
           "}">>
    ELSE <<c>>

\* The text of a class under the escape mode
ClassText(node, esc) ==
    <<"[">> \o (IF node.negated THEN <<"^">> ELSE <<>>)
        \o Flatten([i \in 1..Len(node.chars) |-> CharText(node.chars[i], esc)])
        \o <<"]">>

\* The tree has no Literal and no class member
NoChars(ast) ==
    \A n \in AllNodes(ast) :
        /\ n.t # "Literal"
        /\ n.t = "CharacterClass" => n.chars = <<>>

\* C15: the escape mode changes only the rendering of Literal characters
\* and CharacterClass members, each '\u{HEX}' of its code point when the
\* mode is on and verbatim when it is off; a tree with neither prints to the
\* same text in both modes.
C15_EscapeMode ==
    pc = "printed" =>
        /\ \A n \in AllNodes(CurrentAst) :
               /\ n.t = "Literal" =>
                      PrintNode(n, use_unicode_escapes)
                          = CharText(n.c, use_unicode_escapes)
               /\ n.t = "CharacterClass" =>
                      PrintNode(n, use_unicode_escapes)
                          = ClassText(n, use_unicode_escapes)
        /\ NoChars(CurrentAst) =>
               printed.v = PrintAst(CurrentAst, ~use_unicode_escapes)

\* A tree with a literal and a class of two members was printed with the
\* escape mode on
C15_Witness ==
    /\ pc = "printed"
    /\ use_unicode_escapes
    /\ \E n \in AllNodes(CurrentAst) : n.t = "Literal"
    /\ \E n \in AllNodes(CurrentAst) :
           n.t = "CharacterClass" /\ Len(n.chars) >= 2

---------------------------------------------------------------------------
(* C16: curly quantifier bodies (SpecCurly)                                *)

\* The longest pattern, in fragments, of the quantifier specification
MaxCurlyFrags == 4

CurlyFrags ==
    Chars({"a", "1", ",", "}", "?"})
        \cup {<<"a", "{">>, <<"1", ",">>, <<"9", "9", "9", "9", "9">>}

InitCurly == InitWith(Concats(CurlyFrags, MaxCurlyFrags))

SpecCurly == InitCurly /\ [][Next]_vars

\* The index after the run of digits that starts at index i
RECURSIVE DigitRun(_, _)
DigitRun(s, i) ==
    IF i <= Len(s) /\ s[i] \in Digits THEN DigitRun(s, i + 1) ELSE i

\* A number of a curly quantifier: one or more digits, within usize
IsNumber(s) == s # <<>> /\ FitsUsize(s)

\* The text has a curly quantifier body right after its first character:
\* '{' at index 2
HasCurlyBody(s) == Len(s) >= 2 /\ s[1] = "a" /\ s[2] = "{"

\* The first number of the body, the index after it, the second number and
\* the index after that
CurlyMinEnd(s) == DigitRun(s, 3)
CurlyMin(s) == SubSeq(s, 3, CurlyMinEnd(s) - 1)
CurlyMaxEnd(s) == DigitRun(s, CurlyMinEnd(s) + 1)
CurlyMax(s) == SubSeq(s, CurlyMinEnd(s) + 1, CurlyMaxEnd(s) - 1)

\* The body is '{n}', '{n,}' or '{n,m}'
WellFormedCurly(s) ==
    /\ IsNumber(CurlyMin(s))
    /\ CurlyMinEnd(s) <= Len(s)
    /\ \/ s[CurlyMinEnd(s)] = "}"
       \/ /\ s[CurlyMinEnd(s)] = ","
          /\ CurlyMaxEnd(s) <= Len(s)
          /\ s[CurlyMaxEnd(s)] = "}"
          /\ CurlyMax(s) = <<>> \/ IsNumber(CurlyMax(s))

\* The text ends right after the first number of the body, or right after
\* the ',' that follows it
EndsAfterMin(s) ==
    /\ IsNumber(CurlyMin(s))
    /\ \/ CurlyMinEnd(s) > Len(s)
       \/ CurlyMinEnd(s) = Len(s) /\ s[Len(s)] = ","

---------------------------------------------------------------------------
(* C17: quantifier suffixes (SpecQuant)                                    *)

\* The longest pattern, in fragments, of the suffix specification
MaxQuantFrags == 3

\* Atoms of each kind (a character, an escape, a class, a group) and the
\* quantifier suffixes of each form
QuantFrags ==
    Chars({"a", ".", "*", "+", "?"})
        \cup {<<"\\", "d">>, <<"[", "a", "b", "]">>, <<"(", "a", ")">>,
              <<"(", "a", "*", ")">>, <<"{", "2", "}">>,
              <<"{", "2", ",", "}">>, <<"{", "2", ",", "1", "3", "}">>}

InitQuant == InitWith(Concats(QuantFrags, MaxQuantFrags))

SpecQuant == InitQuant /\ [][Next]_vars

\* The index of the last character of the atom the text starts with: an
\* escape of two characters, a class up to its ']', a group up to its ')',
\* or one character
AtomEnd(s) ==
    CASE s[1] = "\\" -> 2
      [] s[1] = "[" ->
            CHOOSE j \in 1..Len(s) :
                s[j] = "]" /\ \A k \in 1..(j - 1) : s[k] # "]"
      [] s[1] = "(" -> ClosingIndex(s)
      [] OTHER -> 1

\* A '?' stands at index i
LazyAt(s, i) == i <= Len(s) /\ s[i] = "?"

\* The well-formed curly body that starts after the '{' at index i - 1:
\* '{n}', '{n,}' or '{n,m}'
CurlyAt(s, i) ==
    LET e1 == DigitRun(s, i)
        n == SubSeq(s, i, e1 - 1)
        e2 == DigitRun(s, e1 + 1)
        m == SubSeq(s, e1 + 1, e2 - 1)
    IN  IF ~IsNumber(n) \/ e1 > Len(s) THEN None
        ELSE IF s[e1] = "}" THEN Some(Exactly(DecValue(n)))
        ELSE IF s[e1] # "," \/ e2 > Len(s) \/ s[e2] # "}" THEN None
        ELSE IF m = <<>> THEN Some(AtLeast(DecValue(n)))
        ELSE IF IsNumber(m) THEN Some(Range(DecValue(n), DecValue(m)))
        ELSE None

\* The well-formed quantifier suffix the text carries at index i, if any
SuffixAt(s, i) ==
    IF i > Len(s) THEN None
    ELSE CASE s[i] = "*" -> Some(ZeroOrMore(LazyAt(s, i + 1)))
           [] s[i] = "+" -> Some(OneOrMore(LazyAt(s, i + 1)))
           [] s[i] = "?" -> Some(ZeroOrOne(LazyAt(s, i + 1)))
           [] s[i] = "{" -> CurlyAt(s, i + 1)
           [] OTHER -> None

\* The number of characters of the suffix at index i
SuffixLen(s, i) ==
    IF s[i] = "{"
    THEN (CHOOSE j \in i..Len(s) :
              s[j] = "}" /\ \A k \in i..(j - 1) : s[k] # "}") - i + 1
    ELSE IF LazyAt(s, i + 1) THEN 2 ELSE 1

\* The atom the text starts with carries a well-formed suffix
HasSuffix(s) == s # <<>> /\ SuffixAt(s, AtomEnd(s) + 1).some

\* What the suffix law expects of a text with a suffixed first atom: the
\* atom's own tree in one Quantified node, then the trees of the rest
SuffixedTree(s, a) ==
    <<with_quantifier(Head(Parse(SubSeq(s, 1, a)).val),
                      SuffixAt(s, a + 1).v)>>
        \o Parse(SubSeq(s, a + 1 + SuffixLen(s, a + 1), Len(s))).val

\* C17: a well-formed quantifier suffix wraps exactly the atom right before
\* it in one Quantified node: '*', '+', '?' give ZeroOrMore, OneOrMore,
\* ZeroOrOne, lazy iff a '?' follows at once; '{n}' gives Exactly(n),
\* '{n,}' AtLeast(n), '{n,m}' Range(n, m); and no Quantified node of any
\* parsed tree has a Quantified child.
C17_QuantifierSuffix ==
    (pc = "parsed") =>
        /\ HasSuffix(input) =>
               /\ parsed.v.st = "Ok"
               /\ parsed.v.val = SuffixedTree(input, AtomEnd(input))
        /\ parsed.v.st = "Ok" =>
               \A n \in AllNodes(parsed.v.val) :
                   n.t = "Quantified" => n.node.t # "Quantified"

\* A whole group with a quantified atom inside was wrapped by a '{n,m}'
\* suffix
C17_Witness ==
    /\ pc = "parsed"
    /\ HasSuffix(input)
    /\ input[1] = "("
    /\ SuffixAt(input, AtomEnd(input) + 1).v.q = "Range"
    /\ parsed.v.st = "Ok"
    /\ Head(parsed.v.val).t = "Quantified"
    /\ Head(parsed.v.val).node.t = "Group"
    /\ Head(parsed.v.val).node.nodes[1].t = "Quantified"

---------------------------------------------------------------------------
(* C18: character classes (SpecClass)                                      *)

\* The longest pattern, in characters, of the class specification
MaxClassLen == 5

\* The characters that matter to a class: its brackets, the negation
\* mark, the escape and two members
ClassChars == Chars({"[", "]", "^", "\\", "a", "b"})

InitClass == InitWith(Concats(ClassChars, MaxClassLen))

SpecClass == InitClass /\ [][Next]_vars

\* The class text starts with '[^'
NegatedText(s) == Len(s) >= 2 /\ s[2] = "^"

\* Reading a class from the text, from index i on, with the members read so
\* far: how the class ends ("closed" by an unescaped ']' at index at,
\* "unclosed" at the end of the text, "cut" after a last '\') and its
\* members in order, a '\' giving the character after it
RECURSIVE ClassScan(_, _, _)
ClassScan(s, i, members) ==
    IF i > Len(s) THEN [end |-> "unclosed", members |-> members, at |-> i]
    ELSE IF s[i] = "]" THEN [end |-> "closed", members |-> members, at |-> i]
    ELSE IF s[i] # "\\" THEN ClassScan(s, i + 1, Append(members, s[i]))
    ELSE IF i = Len(s) THEN [end |-> "cut", members |-> members, at |-> i]
    ELSE ClassScan(s, i + 2, Append(members, s[i + 1]))

\* The class the text starts with
ClassOfText(s) == ClassScan(s, IF NegatedText(s) THEN 3 ELSE 2, <<>>)

\* What the class law expects of a text that starts with '[', given how
\* its class reads
ClassLaw(s, c, r) ==
    CASE c.end = "closed" ->
            /\ c.at = Len(s) => r.st = "Ok"
            /\ r.st = "Ok" =>
                   Head(r.val) = new_char_class(c.members, NegatedText(s))
      [] c.end = "unclosed" ->
            r.st = "Err" /\ r.err = "UnclosedCharacterClass"
      [] c.end = "cut" ->
            r.st = "Err" /\ r.err = "UnexpectedEndOfInput"

\* C18: after '[', a leading '^' sets negated; every following character up
\* to the first unescaped ']' is a member, in order, a '\' giving the
\* character after it; input ending before the ']' (also directly after
\* '[' or '[^') fails with UnclosedCharacterClass, but a '\' as the very
\* last character fails with UnexpectedEndOfInput.
C18_CharacterClass ==
    (pc = "parsed" /\ input # <<>> /\ input[1] = "[") =>
        ClassLaw(input, ClassOfText(input), parsed.v)

---------------------------------------------------------------------------
(* C19: group dispatch (SpecDispatch)                                      *)

\* The longest pattern, in fragments, of the dispatch specification
MaxDispatchFrags == 3

\* The opening of every group form, '(?' for the characters that open no
\* form, and bodies with and without branches
DispatchFrags ==
    {<<"(">>, <<")">>, <<"a">>, <<"a", "|", "a">>, <<"(", "?">>,
     <<"(", "?", ":">>, <<"(", "?", "=">>, <<"(", "?", "!">>,
     <<"(", "?", "<", "=">>, <<"(", "?", "<", "!">>,
     <<"(", "?", "<", "n", ">">>}

InitDispatch == InitWith(Concats(DispatchFrags, MaxDispatchFrags))

SpecDispatch == InitDispatch /\ [][Next]_vars

\* A group form read off the text: the node it builds, without children,
\* and the index where its body starts
FormOf(open, start) == [form |-> "node", open |-> open, start |-> start]

\* The form of the group that the text, starting with '(', opens: one of
\* the seven node forms, "invalid" for another character after '(?',
\* "name" for a '(?<' that carries no name and "none" for a text that ends
\* with '(?'
GroupForm(s) ==
    IF Len(s) = 1 \/ s[2] # "?"
    THEN FormOf([t |-> "Group", kind |-> CapturingNone], 2)
    ELSE IF Len(s) = 2 THEN [form |-> "none"]
    ELSE CASE s[3] = ":" -> FormOf([t |-> "Group", kind |-> NonCapturing], 4)
           [] s[3] = "=" ->
                FormOf([t |-> "Lookaround", kind |-> "PositiveLookahead"], 4)
           [] s[3] = "!" ->
                FormOf([t |-> "Lookaround", kind |-> "NegativeLookahead"], 4)
           [] s[3] = "<" /\ Len(s) >= 4 /\ s[4] = "=" ->
                FormOf([t |-> "Lookaround", kind |-> "PositiveLookbehind"], 5)
           [] s[3] = "<" /\ Len(s) >= 4 /\ s[4] = "!" ->
                FormOf([t |-> "Lookaround", kind |-> "NegativeLookbehind"], 5)
           [] s[3] = "<" /\ (Len(s) < 4 \/ s[4] \notin {"=", "!"}) ->
                IF OpenerEnd(s, 1) = 0 THEN [form |-> "name"]
                ELSE FormOf([t |-> "Group",
                             kind |-> CapturingSome(
                                          SubSeq(s, 4, OpenerEnd(s, 1) - 1))],
                            OpenerEnd(s, 1) + 1)
           [] OTHER -> [form |-> "invalid"]

\* The node of a form around the given children
FormNode(open, children) ==
    IF open.t = "Group" THEN new_group(open.kind, children)
    ELSE new_lookaround(open.kind, children)

\* The first node of a tree, inside its first branch if the tree is an
\* alternation
FirstNode(ast) ==
    IF Head(ast).t = "Alternation" THEN Head(Head(ast).alternatives[1])
    ELSE Head(ast)

\* The body text of the group the text starts with: from index start to
\* the ')' that closes it at index c, or to the end of the text when
\* nothing closes it (c = 0)
BodyText(s, start, c) == SubSeq(s, start, IF c = 0 THEN Len(s) ELSE c - 1)

\* What the dispatch law expects of a group of a node form: c is the index
\* of its closing ')' (0 if none), b the parse of its body text alone, r
\* the result of the whole parse
NodeFormLaw(s, open, c, b, r) ==
    IF c = 0
    THEN /\ r.st # "Ok"
         /\ b.st = "Ok" => (r.st = "Err" /\ r.err = "UnclosedGroup")
    ELSE /\ b.st # "Ok" => r.st # "Ok"
         /\ (b.st = "Ok" /\ c = Len(s)) => r.st = "Ok"
         /\ r.st = "Ok" => FirstNode(r.val) = FormNode(open, b.val)

GroupLaw(s, f, r) ==
    CASE f.form = "node" ->
            NodeFormLaw(s, f.open, ClosingIndex(s),
                        Parse(BodyText(s, f.start, ClosingIndex(s))), r)
      [] f.form = "invalid" -> r.st = "Err" /\ r.err = "InvalidGroupSyntax"
      [] OTHER -> TRUE

---------------------------------------------------------------------------
(* C20: group names (SpecNames)                                            *)

\* The longest pattern, in fragments, of the name specification
MaxNameFrags == 4

\* The two constructs that carry a name, the '>' that ends it, name
\* characters of each kind and characters that are none
NameFrags ==
    Chars({">", "n", "_", "1", "-", "=", ")"})
        \cup {<<"(", "?", "<">>, <<"\\", "k", "<">>}

InitNames == InitWith(Concats(NameFrags, MaxNameFrags))

SpecNames == InitNames /\ [][Next]_vars

\* The text starts with '(?<', and not with the '(?<=' or '(?<!' of a
\* lookbehind
OpensNamedGroup(s) ==
    /\ Len(s) >= 3
    /\ SubSeq(s, 1, 3) = <<"(", "?", "<">>
    /\ Len(s) >= 4 => s[4] \notin {"=", "!"}

\* The text starts with '\k<'
OpensNamedBackreference(s) ==
    Len(s) >= 3 /\ SubSeq(s, 1, 3) = <<"\\", "k", "<">>

\* The one rule for names, read at index 4 of the text: a non-empty run of
\* alphanumeric or '_' characters with a '>' right after it
HasName(s) ==
    /\ NameRun(s, 4) > 4
    /\ NameRun(s, 4) <= Len(s)
    /\ s[NameRun(s, 4)] = ">"

NameOf(s) == SubSeq(s, 4, NameRun(s, 4) - 1)

\* The text after the '>' of the name
AfterName(s) == SubSeq(s, NameRun(s, 4) + 1, Len(s))

\* What the name rule expects of a text that opens a named construct:
\* node is the node a good name gives, whole tells that the text read so
\* far is a whole pattern, r is the result of the parse
NameLaw(s, node, whole, r) ==
    IF HasName(s)
    THEN /\ whole => r.st = "Ok"
         /\ r.st = "Ok" => node
    ELSE r.st = "Err" /\ r.err = "InvalidGroupName"

\* C20: names in '(?<name>' and in '\k<name>' are parsed by the same rule:
\* a non-empty run of alphanumeric or '_' characters ended by '>'; an
\* empty name, any other character before '>', or input ending before '>'
\* fails with InvalidGroupName; '\k<name>' yields
\* Backreference(NameBased(name)).
C20_Names ==
    (pc = "parsed") =>
        /\ OpensNamedGroup(input) =>
               NameLaw(input,
                       /\ Head(parsed.v.val).t = "Group"
                       /\ Head(parsed.v.val).kind = CapturingSome(NameOf(input)),
                       AfterName(input) = <<")">>,
                       parsed.v)
        /\ OpensNamedBackreference(input) =>
               NameLaw(input,
                       Head(parsed.v.val)
                           = new_backreference(NameBased(NameOf(input))),
                       AfterName(input) = <<>>,
                       parsed.v)

\* A named backreference with a name of several characters was built
C20_Witness ==
    /\ pc = "parsed"
    /\ OpensNamedBackreference(input)
    /\ HasName(input)
    /\ Len(NameOf(input)) >= 2
    /\ parsed.v.st = "Ok"
    /\ Head(parsed.v.val).t = "Backreference"
    /\ Head(parsed.v.val).kind.k = "NameBased"

---------------------------------------------------------------------------
(* C21: numeric character escapes (SpecHex)                                *)

\* The longest pattern, in fragments, of the numeric-escape specification
MaxHexFrags == 4

\* The openings of the two escapes, with and without the '{', the '}',
\* hexadecimal digits of each kind, a run of six of them and a character
\* that is no hexadecimal digit
HexFrags ==
    Chars({"}", "1", "a", "F", "g"})
        \cup {<<"\\", "x">>, <<"\\", "u">>, <<"\\", "u", "{">>,
              <<"1", "F", "1", "1", "1", "a">>}

InitHex == InitWith(Concats(HexFrags, MaxHexFrags))

SpecHex == InitHex /\ [][Next]_vars

\* The value of a hexadecimal digit, of either case; -1 for any other
\* character
HexDigitValue(c) ==
    CASE c \in Digits -> ToDigit10(c)
      [] c \in {"a", "A"} -> 10
      [] c \in {"b", "B"} -> 11
      [] c \in {"c", "C"} -> 12
      [] c \in {"d", "D"} -> 13
      [] c \in {"e", "E"} -> 14
      [] c \in {"f", "F"} -> 15
      [] OTHER -> -1

IsHexDigit(c) == HexDigitValue(c) >= 0

\* The index after the run of hexadecimal digits that starts at index i
RECURSIVE HexRun(_, _)
HexRun(s, i) ==
    IF i <= Len(s) /\ IsHexDigit(s[i]) THEN HexRun(s, i + 1) ELSE i

\* The value of a string of hexadecimal digits
RECURSIVE HexValueOf(_)
HexValueOf(s) ==
    IF s = <<>> THEN 0
    ELSE 16 * HexValueOf(SubSeq(s, 1, Len(s) - 1)) + HexDigitValue(s[Len(s)])

\* The text starts with '\x' / with '\u'
OpensHexEscape(s) == Len(s) >= 2 /\ s[1] = "\\" /\ s[2] = "x"
OpensUnicodeEscape(s) == Len(s) >= 2 /\ s[1] = "\\" /\ s[2] = "u"

\* '\x' is followed by two hexadecimal digits
WellFormedHex(s) == Len(s) >= 4 /\ IsHexDigit(s[3]) /\ IsHexDigit(s[4])

\* '\u' is followed by '{', one to six hexadecimal digits and '}'
WellFormedUnicode(s) ==
    /\ Len(s) >= 3
    /\ s[3] = "{"
    /\ HexRun(s, 4) - 4 \in 1..6
    /\ HexRun(s, 4) <= Len(s)
    /\ s[HexRun(s, 4)] = "}"

\* What the escape law expects of a text that opens a numeric escape:
\* wellformed tells that the escape reads well, last is the index of its
\* last character, node the node it gives, e the error a bad one gives and
\* r the result of the parse
NumericEscapeLaw(s, wellformed, last, node, e, r) ==
    IF wellformed
    THEN /\ last = Len(s) => (r.st = "Ok" /\ r.val = <<node>>)
         /\ r.st = "Ok" => Head(r.val) = node
    ELSE r.st = "Err" /\ r.err = e

\* C21: '\x' followed by exactly two hex digits yields EscapedChar::Hex of
\* their value and otherwise fails with InvalidHexNumber; '\u{' followed by
\* 1 to 6 hex digits and '}' yields EscapedChar::Unicode of their value as
\* one node, and zero digits, a non-hex digit, more than 6 digits, a
\* missing '{' or a missing '}' fail with InvalidUnicodeValue.
C21_NumericEscapes ==
    (pc = "parsed") =>
        /\ OpensHexEscape(input) =>
               NumericEscapeLaw(
                   input, WellFormedHex(input), 4,
                   new_character_type(
                       EscapedHex(HexValueOf(SubSeq(input, 3, 4)))),
                   "InvalidHexNumber", parsed.v)
        /\ OpensUnicodeEscape(input) =>
               NumericEscapeLaw(
                   input, WellFormedUnicode(input), HexRun(input, 4),
                   new_character_type(
                       EscapedUnicode(
                           HexValueOf(SubSeq(input, 4, HexRun(input, 4) - 1)))),
                   "InvalidUnicodeValue", parsed.v)

\* A '\u{...}' of six digits of both cases was read as one node
C21_Witness ==
    /\ pc = "parsed"
    /\ OpensUnicodeEscape(input)
    /\ WellFormedUnicode(input)
    /\ HexRun(input, 4) = 10
    /\ Len(input) = 10
    /\ parsed.v.st = "Ok"
    /\ Len(parsed.v.val) = 1
    /\ Head(parsed.v.val).t = "CharacterType"
    /\ Head(parsed.v.val).kind.n > 1048576

---------------------------------------------------------------------------
(* C22: Unicode category escapes (SpecCategory)                            *)

\* The longest pattern, in fragments, of the category specification
MaxCategoryFrags == 3

\* The two escapes, with and without the '{', the '}', the seven category
\* letters and a letter that names no category
CategoryFrags ==
    Chars({"}", "L", "N", "P", "S", "M", "Z", "C", "x"})
        \cup {<<"\\", "p">>, <<"\\", "P">>, <<"\\", "p", "{">>,
              <<"\\", "P", "{">>}

InitCategory == InitWith(Concats(CategoryFrags, MaxCategoryFrags))

SpecCategory == InitCategory /\ [][Next]_vars

\* The category each letter names
CategoryLetters == {"L", "N", "P", "S", "M", "Z", "C"}

CategoryOfLetter(c) ==
    CASE c = "L" -> "Letter"
      [] c = "N" -> "Number"
      [] c = "P" -> "Punctuation"
      [] c = "S" -> "Symbol"
      [] c = "M" -> "Mark"
      [] c = "Z" -> "Separator"
      [] c = "C" -> "Other"

\* The text starts with '\p' or '\P'
OpensCategoryEscape(s) == Len(s) >= 2 /\ s[1] = "\\" /\ s[2] \in {"p", "P"}

\* '\p' or '\P' is followed by '{', a category letter and '}'
WellFormedCategory(s) ==
    /\ Len(s) >= 5
    /\ s[3] = "{"
    /\ s[4] \in CategoryLetters
    /\ s[5] = "}"

\* C22: '\p{X}' and '\P{X}' with X one of L, N, P, S, M, Z, C yield
\* UnicodeCategory with the category of X, negated iff the letter was 'P';
\* an unknown category letter, a missing '{' or a missing '}', also when
\* the input ends anywhere inside the escape, fails with
\* InvalidUnicodeCategory.
C22_UnicodeCategory ==
    (pc = "parsed" /\ OpensCategoryEscape(input)) =>
        NumericEscapeLaw(
            input, WellFormedCategory(input), 5,
            new_unicode_category(CategoryOfLetter(input[4]), input[2] = "P"),
            "InvalidUnicodeCategory", parsed.v)

---------------------------------------------------------------------------
(* C23: the whole input is consumed                                        *)

\* C23: whenever Parser::parse returns Ok, the cursor is at the end of the
\* input: every character of the pattern has been consumed into the tree,
\* so no accepted pattern has trailing text that is ignored.
C23_FullyConsumed ==
    (pc = "parsed" /\ parsed.v.st = "Ok") => parsed.v.pos = Len(input)

---------------------------------------------------------------------------
(* C24: scan progress and termination                                      *)

\* The steps the loop of parse_alternation took to build a node sequence:
\* one for each node pushed and one for each '|'
LoopSteps(nodes) ==
    IF Len(nodes) = 1 /\ Head(nodes).t = "Alternation"
    THEN Len(Flatten(Head(nodes).alternatives))
         + Len(Head(nodes).alternatives) - 1
    ELSE Len(nodes)

\* The node sequences built by one run of the loop each: the tree itself
\* and the body of every group and lookaround in it
Levels(ast) ==
    {ast} \cup {n.nodes : n \in {m \in AllNodes(ast) :
                                    m.t \in {"Group", "Lookaround"}}}

\* A call of parse_node at cursor p that succeeds moves the cursor forward,
\* and not beyond the end of the input
NodeAdvances(inp, p, r) ==
    r.st = "Ok" => (r.pos > p /\ r.pos <= Len(inp))

\* C24: during any parse the cursor never decreases and never exceeds the
\* input length, every successful parse_node call and every '|' step moves
\* it forward by at least one, and so the parse ends, with Ok or Err, on
\* every input after at most len(input) atom and separator steps at each
\* nesting level.
C24_ScanProgress ==
    (pc = "parsed") =>
        /\ parsed.v.st \in {"Ok", "Err"}
        /\ parsed.v.pos \in 0..Len(input)
        /\ \A p \in 0..(Len(input) - 1) : \A gc \in 0..1 :
               NodeAdvances(input, p, ParseNode(input, p, gc))
        /\ parsed.v.st = "Ok" =>
               \A nodes \in Levels(parsed.v.val) :
                   LoopSteps(nodes) <= Len(input)

---------------------------------------------------------------------------
(* C25: the transformer and the Alternation invariant                      *)

\* C25: for every tree returned by the parser, every Alternation node of
\* obfuscate(tree) has at least 2 branches and no empty branch, the
\* Alternation made from a non-negated class of 0 or 1 members included.
C25_AlternationPreserved ==
    pc = "obfuscated" => WellFormedAlternations(obfuscated.v)

---------------------------------------------------------------------------
(* C26: the round trip of plain patterns (SpecPlain)                       *)

\* The longest pattern, in fragments, of the plain specification
MaxPlainFrags == 4

\* Patterns without backslash and without lookaround: atoms, groups,
\* branches, a class, a lazy quantifier and curly bodies whose numbers
\* have leading zeros
PlainFrags ==
    Chars({"a", "|", "(", ")", ",", "}"})
        \cup {<<"*", "?">>, <<"[", "^", "a", "]">>, <<"{", "0", "1">>,
              <<",", "0">>}

InitPlain == InitWith(Concats(PlainFrags, MaxPlainFrags))

SpecPlain == InitPlain /\ [][Next]_vars

\* The pattern has no backslash and its tree no lookaround
IsPlain(s, ast) ==
    /\ \A i \in 1..Len(s) : s[i] # "\\"
    /\ \A n \in AllNodes(ast) : n.t # "Lookaround"

\* The character at index i of the text is a leading zero of a number of
\* a curly body: only zeros stand between it and the '{' or ',' before it
RECURSIVE IsLeadingZero(_, _)
IsLeadingZero(s, i) ==
    /\ i > 1
    /\ s[i] = "0"
    /\ s[i - 1] \in {"{", ","} \/ IsLeadingZero(s, i - 1)

\* The text q is the text p without some of its leading zeros: read side
\* by side from index i of p and index j of q
RECURSIVE DropsLeadingZeros(_, _, _, _)
DropsLeadingZeros(p, i, q, j) ==
    IF i > Len(p) THEN j > Len(q)
    ELSE IF j <= Len(q) /\ p[i] = q[j]
    THEN DropsLeadingZeros(p, i + 1, q, j + 1)
    ELSE IsLeadingZero(p, i) /\ DropsLeadingZeros(p, i + 1, q, j)

\* The part of the pattern the parser consumed
Consumed == SubSeq(input, 1, parsed.v.pos)

\* C26: for every accepted pattern without backslash and without
\* lookaround group, parsing the text printed with escapes off succeeds and
\* gives a tree equal to the first one, and the printed text differs from
\* the consumed part of the pattern at most by leading zeros dropped from
\* the numbers of curly quantifiers.
C26_PlainRoundTrip ==
    (/\ pc = "reparsed"
     /\ ~obfuscated.some
     /\ ~use_unicode_escapes
     /\ IsPlain(input, parsed.v.val)) =>
        /\ reparsed.v.st = "Ok"
        /\ reparsed.v.val = parsed.v.val
        /\ DropsLeadingZeros(Consumed, 1, printed.v, 1)

\* A range whose two numbers have leading zeros went round, printed
\* without them
C26_Witness ==
    /\ pc = "reparsed"
    /\ ~obfuscated.some
    /\ ~use_unicode_escapes
    /\ IsPlain(input, parsed.v.val)
    /\ parsed.v.val # <<>>
    /\ Head(parsed.v.val).t = "Quantified"
    /\ Head(parsed.v.val).quantifier.q = "Range"
    /\ Len(printed.v) < Len(Consumed)
    /\ reparsed.v.st = "Ok"
    /\ reparsed.v.val = parsed.v.val

---------------------------------------------------------------------------
(* C27: backreference numbers beyond usize (SpecBackref)                   *)

\* The longest pattern, in fragments, of the backreference specification
MaxBackrefFrags == 3

\* A capturing group, a backreference to it, the start of a number close
\* to UsizeMax and the digits that take it to UsizeMax and beyond
BackrefFrags ==
    Chars({"a", "5", "6", "7"})
        \cup {<<"(", "a", ")">>, <<"\\", "1">>, <<"\\", "6", "5", "5", "3">>}

\* Both builds: with overflow checks and without
InitBackref ==
    InitBuilt(Concats(BackrefFrags, MaxBackrefFrags), BOOLEAN)

SpecBackref == InitBackref /\ [][Next]_vars

\* The text has a numeric escape whose number is beyond usize
HasHugeEscape(s) ==
    \E i \in NumericEscapes(s) : EscapeValue(s, i) > UsizeMax

\* C27: a backreference digit run whose decimal value exceeds the host
\* integer range is rejected with InvalidBackreference: the number
\* accumulated by parse_number never overflows, and never wraps to a small
\* index that is then accepted as a group reference.
C27_HugeBackreference ==
    (pc = "parsed" /\ HasHugeEscape(input)) =>
        /\ parsed.v.st = "Err"
        /\ parsed.v.err = "InvalidBackreference"

---------------------------------------------------------------------------
(* C28: range quantifiers are not ordered (SpecRange)                      *)

\* The longest pattern, in fragments, of the range specification
MaxRangeFrags == 5

\* An atom with the '{' of a curly body, the ',' and '}' of the body and
\* digits for bounds in either order
RangeFrags == Chars({"0", "1", "3", ",", "}"}) \cup {<<"a", "{">>}

InitRange == InitWith(Concats(RangeFrags, MaxRangeFrags))

SpecRange == InitRange /\ [][Next]_vars

\* The text starts with 'a{m,n}', m and n numbers within usize
HasRangeBody(s) ==
    /\ HasCurlyBody(s)
    /\ WellFormedCurly(s)
    /\ s[CurlyMinEnd(s)] = ","
    /\ CurlyMax(s) # <<>>

\* The node 'a{m,n}' stands for, the bounds as written
RangeNode(s) ==
    [t |-> "Quantified",
     node |-> [t |-> "Literal", c |-> "a"],
     quantifier |-> [q |-> "Range",
                     min |-> DecValue(CurlyMin(s)),
                     max |-> DecValue(CurlyMax(s))]]

\* C28: the parser applies no ordering check to range quantifiers: for all
\* m and n in range, m > n included, 'x{m,n}' is accepted and yields
\* Quantified{x, Range{min: m, max: n}} with the bounds as written, never
\* rejected with InvalidQuantifier and never swapped.
C28_RangeUnordered ==
    (pc = "parsed" /\ HasRangeBody(input)) =>
        /\ CurlyMaxEnd(input) = Len(input) =>
               (parsed.v.st = "Ok" /\ parsed.v.val = <<RangeNode(input)>>)
        /\ parsed.v.st = "Ok" => Head(parsed.v.val) = RangeNode(input)
        /\ parsed.v.st = "Err" => parsed.v.err # "InvalidQuantifier"

\* A range whose minimum is above its maximum was accepted as written
C28_Witness ==
    /\ pc = "parsed"
    /\ HasRangeBody(input)
    /\ DecValue(CurlyMin(input)) > DecValue(CurlyMax(input))
    /\ DecValue(CurlyMax(input)) > 0
    /\ parsed.v.st = "Ok"
    /\ Head(parsed.v.val).quantifier.min > Head(parsed.v.val).quantifier.max
=============================================================================
